---- MODULE Spec2Model ----
(***************************************************************************)
(* grapi: the request pipeline of the REST handlers (api.go, request.go,   *)
(* interfaces.go, route_options.go, auth.go).                              *)
(*                                                                         *)
(* Every conjunct of a handler's && chain is one step; `pc` is the        *)
(* position in the chain (0: no request in flight).  User callbacks are    *)
(* inputs: what a callback returns and what it does through the interface  *)
(* it is handed is chosen with \E.  One request is served at a time, but   *)
(* for SpecConc, where two goroutines serve a request each.                *)
(***************************************************************************)
EXTENDS Integers, Sequences, FiniteSets, TLC

\* ------------------------------------------------------------------ bounds
MaxId == 2          \* primary keys of the modelled table are 1..MaxId
MaxTime == 1        \* the clock runs over 0..MaxTime
MaxUser == 2        \* subject ids carried by tokens are 1..MaxUser
MaxConfigs == 2     \* RouteOptions are made while fewer of them exist
MaxRoutes == 2      \* single routes are added while fewer routes exist

Ids == 1..MaxId
Names == {"", "w"}  \* "" is the zero value of a Go string
Times == 0..MaxTime
Subjects == 1..MaxUser
Users == {1}        \* the ids LoginModel.GetById resolves
Keys == {"JwtKey", "otherKey"}

VARIABLES
    table,      \* rows of the model's table in the database behind g.db
    now,        \* the clock (time.Now), read by the token check
    handler,    \* which handler serves the request in flight, or "idle"
    req,        \* the request struct of the request in flight
    pc,         \* next conjunct of the handler's chain; 0: none in flight
    W,          \* what has been written to the http.ResponseWriter
    trace,      \* the stages that have run, in order, with what they returned
    dbCalls,    \* the calls made to gorm, with the handle they were made on
    validated,  \* the error maps ValidateUpload has returned to the request
    g_options,  \* g.options, the Options of the Grapi; nil before New
    router,     \* the routes registered with g.router
    heap,       \* the RouteOptions objects the registered handlers point to
    fatal,      \* the call that panicked last ("" when none has)
    held,       \* the token the client got from its last login
    g_db,       \* g.db, the handle every handler starts its request from
    parked      \* the requests other goroutines are serving, each where it stands

\* What New, SetAuth and the Add...Route calls set up, and the client's token.
setup == <<g_options, router, heap, fatal, held, g_db, parked>>
vars == <<table, now, handler, req, pc, W, trace, dbCalls, validated, setup>>

\* ------------------------------------------------------------------ values
NilValue == [kind |-> "nil"]
Item(rec) == [kind |-> "item", item |-> rec]
Slice(recs) == [kind |-> "slice", items |-> recs]
CustomValue == [kind |-> "custom"]
FuncValue == [kind |-> "func"]      \* a value encoding/json cannot encode

Records == [id : Ids, name : Names]

\* A request body: not JSON at all, or a JSON object giving some of the fields.
\* The body is a stream: what it holds is known once httpBody has read it.
Unread == [read |-> FALSE]
Malformed == [read |-> TRUE, valid |-> FALSE]
JsonObjects ==
    {<<>>} \cup {[id |-> i] : i \in 0..MaxId} \cup {[name |-> n] : n \in Names}
           \cup {[id |-> i, name |-> n] : i \in 0..MaxId, n \in Names}
Bodies ==
    {Malformed} \cup {[read |-> TRUE, valid |-> TRUE, fields |-> f] : f \in JsonObjects}

\* A bearer token: none, or claims signed with some key under some method.
\* Whoever holds the secret (getJWTToken) signs claims that carry an id; a
\* token made without the secret carries any claims.
NoToken == [present |-> FALSE]
Tokens ==
    {NoToken} \cup
    {[present |-> TRUE, alg |-> a, key |-> k, claims |-> c] :
        a \in {"HS256", "RS256"}, k \in Keys,
        c \in {[id |-> s] : s \in Subjects}
              \cup {[id |-> s, exp |-> e] : s \in Subjects, e \in Times}} \cup
    {[present |-> TRUE, alg |-> a, key |-> "otherKey", claims |-> c] :
        a \in {"HS256", "RS256"}, c \in {<<>>} \cup {[exp |-> e] : e \in Times}}

\* The Options of the Grapi instance: the data store handle (nil or not), the
\* signing secret ("" when not given) and the LoginModel (nil or a model).
JwtKey == "JwtKey"
NoKey == ""
LoginModels == {"User", "Admin"}
Options ==
    [Db : BOOLEAN, JwtKey : {NoKey} \cup Keys,
     LoginModel : {"nil"} \cup LoginModels]
\* The server the tests run against: New with a Db and a JwtKey, then SetAuth.
getTestApi == [Db |-> TRUE, JwtKey |-> JwtKey, LoginModel |-> "User"]
Principal(id) == [user |-> id]

\* g.db: the handle without any scope.  A handle is the set of Where clauses
\* (name = n) added to it.
api_db == {}
Where(db, n) == db \cup {n}
Visible(db) == {r \in table : \A n \in db : r.name = n}

\* ------------------------------------------------------------ RouteOptions
OptionalStages == {"Authenticate", "Authorize", "Query", "CheckUpload", "EditResult"}

\* The RouteOptions a caller can write.
RouteOptions ==
    [UseDefaultAuth : BOOLEAN,
     Authenticate : {"nil", "custom"}, Authorize : {"nil", "custom"},
     Query : {"nil", "custom"}, CheckUpload : {"nil", "custom"},
     EditResult : {"nil", "custom"}, initialised : {FALSE}]
\* &RouteOptions{}
EmptyRouteOptions ==
    [UseDefaultAuth |-> FALSE, Authenticate |-> "nil", Authorize |-> "nil",
     Query |-> "nil", CheckUpload |-> "nil", EditResult |-> "nil",
     initialised |-> FALSE]

\* The RouteOptions with custom callbacks only that the routes are registered
\* with: no callback, one callback, or all five.
Registered ==
    {ro \in RouteOptions :
        /\ ~ro.UseDefaultAuth
        /\ Cardinality({c \in OptionalStages : ro[c] = "custom"}) \in {0, 1, 5}}

\* Initialise without the early return for an initialised RouteOptions.
C15_Mutant_Initialise(ro) ==
    LET marked == [ro EXCEPT !.initialised = TRUE] IN
    IF ~ro.UseDefaultAuth THEN [ro |-> marked, panic |-> FALSE]
    ELSE IF ro.Authenticate # "nil" THEN [ro |-> marked, panic |-> TRUE]
    ELSE [ro |-> [marked EXCEPT !.Authenticate = "default"], panic |-> FALSE]

\* Initialise that marks the RouteOptions as initialised when it is done: a
\* call that panics leaves it unmarked.
C36_Mutant_Initialise(ro) ==
    IF ro.initialised
    THEN [ro |-> ro, panic |-> FALSE]
    ELSE LET marked == [ro EXCEPT !.initialised = TRUE] IN
         IF ~ro.UseDefaultAuth
         THEN [ro |-> marked, panic |-> FALSE]
         ELSE IF ro.Authenticate # "nil"
         THEN [ro |-> ro, panic |-> TRUE]
         ELSE [ro |-> [marked EXCEPT !.Authenticate = "default"],
               panic |-> FALSE]

\* Initialise: what it leaves in the RouteOptions, and whether it panics.
\* With UseDefaultAuth set the Authenticate slot gets g.defaultAuthenticator().
Initialise(ro) ==
    IF ro.initialised
    THEN [ro |-> ro, panic |-> FALSE]
    ELSE LET marked == [ro EXCEPT !.initialised = TRUE] IN
         IF ~ro.UseDefaultAuth
         THEN [ro |-> marked, panic |-> FALSE]
         ELSE IF ro.Authenticate # "nil"
         THEN [ro |-> marked, panic |-> TRUE]
         ELSE [ro |-> [marked EXCEPT !.Authenticate = "default"],
               panic |-> FALSE]

\* ------------------------------------------------------------ registration
\* The RouteOptions the registration calls are given: the built-in
\* authenticator asked for or not, a custom Authenticate set or not.
SetupOptions ==
    {ro \in RouteOptions :
        \A c \in OptionalStages \ {"Authenticate"} : ro[c] = "nil"}
\* The argument lists of AddDefaultRoutes.
OptionLists ==
    {<<>>} \cup {<<a>> : a \in SetupOptions}
           \cup {<<a, b>> : a \in SetupOptions, b \in SetupOptions}
           \cup {<<a, b, c>> : a \in SetupOptions, b \in SetupOptions,
                                c \in SetupOptions}
           \cup {<<a, a, a, a>> : a \in SetupOptions}

\* A route of the router: the handler registered and the RouteOptions object
\* it points to (0: none, the login route).
Route(h, ro) == [handler |-> h, ro |-> ro]

\* Add...Route that leaves the Initialise of the RouteOptions to the first
\* request: the handler is registered with the object as the caller made it.
C31_Mutant_AddRoute(st, h, ro) ==
    IF st.panic
    THEN st
    ELSE LET hp == IF ro = 0 THEN Append(st.heap, EmptyRouteOptions) ELSE st.heap
             a == IF ro = 0 THEN Len(hp) ELSE ro
         IN  [heap |-> hp, router |-> st.router \cup {Route(h, a)},
              panic |-> FALSE]

\* Add...Route(modelP, ro) on the registry st (the RouteOptions objects, the
\* router, whether the calls so far have panicked): a nil ro (0) is replaced
\* by a new &RouteOptions{}, the object is initialised and, unless that
\* panics, the handler is registered.
AddRoute(st, h, ro) ==
    IF st.panic
    THEN st
    ELSE LET hp == IF ro = 0 THEN Append(st.heap, EmptyRouteOptions) ELSE st.heap
             a == IF ro = 0 THEN Len(hp) ELSE ro
             init == Initialise(hp[a])
             hp2 == [hp EXCEPT ![a] = init.ro]
         IN  IF init.panic
             THEN [heap |-> hp2, router |-> st.router, panic |-> TRUE]
             ELSE [heap |-> hp2, router |-> st.router \cup {Route(h, a)},
                   panic |-> FALSE]

\* ---------------------------------------------------------------- handlers
itemHandler ==
    <<"Authenticate", "Authorize", "Query", "GetItemById", "EditResult",
      "SerialiseResult">>
indexHandler ==
    <<"Authenticate", "Authorize", "Query", "GetItems", "EditResult",
      "SerialiseResult">>
\* postHandler with the Query callback of the other handlers.
C1_Mutant_postHandler ==
    <<"Authenticate", "Authorize", "Query", "ParseUpload", "CheckUpload",
      "PostDB", "EditResult", "SerialiseResult">>
postHandler ==
    <<"Authenticate", "Authorize", "ParseUpload", "CheckUpload", "PostDB",
      "EditResult", "SerialiseResult">>
\* patchHandler that lets EditResult see the merged entity before it saves.
C34_Mutant_patchHandler ==
    <<"Authenticate", "Authorize", "Query", "GetItemById",
      "PatchResultWithUploaded", "CheckUpload", "EditResult", "PatchDB",
      "SerialiseResult">>
patchHandler ==
    <<"Authenticate", "Authorize", "Query", "GetItemById",
      "PatchResultWithUploaded", "CheckUpload", "PatchDB", "EditResult",
      "SerialiseResult">>
deleteHandler ==
    <<"Authenticate", "Authorize", "Query", "GetItemById", "DeleteFromDB",
      "EditResult", "SerialiseResult">>

Handlers == {"item", "index", "post", "patch", "delete"}
Chain(h) ==
    CASE h = "item" -> itemHandler
      [] h = "index" -> indexHandler
      [] h = "post" -> postHandler
      [] h = "patch" -> patchHandler
      [] h = "delete" -> deleteHandler

Method(h) ==
    CASE h \in {"item", "index"} -> "GET"
      [] h = "post" -> "POST"
      [] h = "patch" -> "PATCH"
      [] h = "delete" -> "DELETE"

NoRequest ==
    [api |-> "g", method |-> "", id |-> 0, body |-> Unread, token |-> NoToken,
     Type |-> "Widget",
     options |-> EmptyRouteOptions,
     DB |-> api_db, Result |-> NilValue, Uploaded |-> NilValue,
     LoginObject |-> NilValue, Data |-> NilValue]

\* A goroutine of the server with no request to serve.
Idle ==
    [handler |-> "idle", req |-> NoRequest, pc |-> 0, W |-> <<>>,
     trace |-> <<>>, dbCalls |-> <<>>, validated |-> <<>>]

Stage == Chain(handler)[pc]
At(s) == pc > 0 /\ Stage = s

\* A conjunct of the chain has returned ok: && goes on to the next conjunct
\* only then.
Return(s, ok) ==
    /\ trace' = Append(trace, [stage |-> s, ok |-> ok])
    /\ pc' = IF ok /\ pc < Len(Chain(handler)) THEN pc + 1 ELSE 0

Write(s, code, body) == Append(W, [by |-> s, code |-> code, body |-> body])

\* ------------------------------------------------------------------- store
\* What gorm's calls can do to the table.  Every write can fail in the store
\* (a constraint, a lost connection); Create also fails on a primary key in
\* use and otherwise gives a record without one (id 0) a fresh key.
InUse(id) == \E r \in table : r.id = id
Create(rec) ==
    {[err |-> TRUE, rec |-> rec, table |-> table]} \cup
    {[err |-> FALSE, rec |-> [rec EXCEPT !.id = i],
      table |-> table \cup {[rec EXCEPT !.id = i]}] :
        i \in {j \in Ids : ~InUse(j) /\ (rec.id = 0 \/ rec.id = j)}}
Save(rec) ==
    {[err |-> TRUE, table |-> table],
     [err |-> FALSE, table |-> {r \in table : r.id # rec.id} \cup {rec}]}
Delete(rec) ==
    {[err |-> TRUE, table |-> table],
     [err |-> FALSE, table |-> {r \in table : r.id # rec.id}]}
FindById(db, id) == {r \in Visible(db) : r.id = id}

Call(op, db, err) == Append(dbCalls, [op |-> op, handle |-> db, err |-> err])

\* -------------------------------------------------------------------- json
ZeroItem == [id |-> 0, name |-> ""]
\* json.Unmarshal that starts from an empty struct: the fields the object
\* does not give are zero.
C21_Mutant_Unmarshal(fields, target) ==
    [id |-> IF "id" \in DOMAIN fields THEN fields.id ELSE 0,
     name |-> IF "name" \in DOMAIN fields THEN fields.name ELSE ""]

\* json.Unmarshal of a JSON object into a struct: the fields the object gives
\* are overwritten, the others are kept.
Unmarshal(fields, target) ==
    [id |-> IF "id" \in DOMAIN fields THEN fields.id ELSE target.id,
     name |-> IF "name" \in DOMAIN fields THEN fields.name ELSE target.name]
getID(value) == value.item.id
\* json.NewEncoder(w).Encode(value): the JSON text of a result.  An entity is
\* an object of its fields, a slice the array of its rows (in the order of
\* their keys); a value with a func or chan in it cannot be encoded.
EncodeItem(rec) ==
    "{\"id\":" \o ToString(rec.id) \o ",\"name\":\"" \o rec.name \o "\"}"
RECURSIVE EncodeRows(_)
EncodeRows(rows) ==
    IF rows = {} THEN ""
    ELSE LET r == CHOOSE x \in rows : \A y \in rows : x.id <= y.id
             rest == rows \ {r}
         IN  EncodeItem(r) \o (IF rest = {} THEN "" ELSE ",") \o EncodeRows(rest)
Encode(value) ==
    CASE value.kind = "item" -> [err |-> FALSE, json |-> EncodeItem(value.item)]
      [] value.kind = "slice" ->
            [err |-> FALSE, json |-> "[" \o EncodeRows(value.items) \o "]"]
      [] value.kind = "custom" -> [err |-> FALSE, json |-> "{\"custom\":true}"]
      [] value.kind = "func" -> [err |-> TRUE, json |-> ""]

Types == {"Widget", "VerifiedWidget"}
NeedsValidation(Type) == Type = "VerifiedWidget"
\* A map[string]string of validation errors: nil or made, and its keys.
ErrorMaps ==
    {[nil |-> TRUE, keys |-> {}], [nil |-> FALSE, keys |-> {}],
     [nil |-> FALSE, keys |-> {"must_be_hello_horld"}]}
\* What the ValidateUpload of an entity may return.
ValidateUpload(Type) == ErrorMaps

\* ----------------------------------------------------------------- request
HasId(h) == h \in {"item", "patch", "delete"}
HasBody(h) == h \in {"post", "patch"}

\* A handler that fills in a request struct all its calls share, instead of
\* building one: what the call in progress in the other goroutine has stored
\* is still in it.
C30_Mutant_NewRequest(h, id, Type, o, token) ==
    /\ handler = "idle"
    /\ handler' = h
    /\ req' = [parked.req EXCEPT !.method = Method(h), !.id = id, !.Type = Type,
                                 !.options = o, !.token = token, !.DB = g_db]
    /\ pc' = 1
    /\ W' = <<>>
    /\ trace' = <<>>
    /\ dbCalls' = <<>>
    /\ validated' = <<>>
    /\ UNCHANGED <<setup, table, now>>

NewRequest(h, id, Type, o, token) ==
    /\ handler = "idle"
    /\ handler' = h
    /\ req' = [NoRequest EXCEPT !.method = Method(h), !.id = id, !.Type = Type,
                                !.options = o, !.token = token, !.DB = g_db]
    /\ pc' = 1
    /\ W' = <<>>
    /\ trace' = <<>>
    /\ dbCalls' = <<>>
    /\ validated' = <<>>
    /\ UNCHANGED <<setup, table, now>>

\* The handler has returned: its request struct is dropped.
HandlerReturns ==
    /\ pc = 0
    /\ handler # "idle"
    /\ handler' = "idle"
    /\ req' = NoRequest
    /\ W' = <<>>
    /\ trace' = <<>>
    /\ dbCalls' = <<>>
    /\ validated' = <<>>
    /\ UNCHANGED <<setup, table, now, pc>>

\* (o.X == nil || ...): a callback that is not set is not called.
Skip ==
    /\ pc > 0
    /\ Stage \in OptionalStages
    /\ req.options[Stage] = "nil"
    /\ pc' = pc + 1
    /\ UNCHANGED <<setup, table, now, handler, req, W, trace, dbCalls, validated>>

\* --------------------------------------------------------------- callbacks
\* What a callback that holds the response writer does with it and returns.
\* Kept: a callback that returns true has written nothing (it leaves the
\* response to the stages after it).  Anything: no restriction.
Anything == [ok : BOOLEAN, wrote : BOOLEAN]
Kept == {b \in Anything : b.ok => ~b.wrote}

\* A custom Authenticator (ReqToAuthenticate): may write a response, may set
\* the login object, which it also keeps for the later callbacks with
\* SetData, returns ok.
Authenticate(does) ==
    /\ At("Authenticate")
    /\ req.options.Authenticate = "custom"
    /\ \E b \in does, lo \in {NilValue} \cup {Principal(u) : u \in Users} :
        /\ W' = IF b.wrote THEN Write("Authenticate", 401, "custom") ELSE W
        /\ req' = [req EXCEPT !.LoginObject = lo, !.Data = lo]
        /\ Return("Authenticate", b.ok)
    /\ UNCHANGED <<setup, table, now, handler, dbCalls, validated>>

\* An Authorizor handed a request with SetLoginObject: it unbinds the
\* principal.
C32_Mutant_Authorize(does) ==
    /\ At("Authorize")
    /\ req.options.Authorize = "custom"
    /\ \E b \in does :
        /\ W' = IF b.wrote THEN Write("Authorize", 403, "custom") ELSE W
        /\ req' = [req EXCEPT !.LoginObject = NilValue]
        /\ Return("Authorize", b.ok)
    /\ UNCHANGED <<setup, table, now, handler, dbCalls, validated>>

\* An Authorizor (ReqToAuthorize): may write a response, returns ok.
Authorize(does) ==
    /\ At("Authorize")
    /\ req.options.Authorize = "custom"
    /\ \E b \in does :
        /\ W' = IF b.wrote THEN Write("Authorize", 403, "custom") ELSE W
        /\ Return("Authorize", b.ok)
    /\ UNCHANGED <<setup, table, now, handler, req, dbCalls, validated>>

\* A QueryLimiter whose SetDB stores the handle in the Grapi as well as in
\* the request.
C29_Mutant_Query ==
    /\ At("Query")
    /\ req.options.Query = "custom"
    /\ \E ok \in BOOLEAN,
          db \in {req.DB} \cup {Where(req.DB, n) : n \in Names} :
        /\ req' = [req EXCEPT !.DB = db]
        /\ g_db' = db
        /\ Return("Query", ok)
    /\ UNCHANGED <<g_options, router, heap, fatal, held, parked, table, now,
                   handler, W, dbCalls, validated>>

\* A QueryLimiter (ReqToLimit): GetDB/SetDB, no response writer.
Query ==
    /\ At("Query")
    /\ req.options.Query = "custom"
    /\ \E ok \in BOOLEAN,
          db \in {req.DB} \cup {Where(req.DB, n) : n \in Names} :
        /\ req' = [req EXCEPT !.DB = db]
        /\ Return("Query", ok)
    /\ UNCHANGED <<setup, table, now, handler, W, dbCalls, validated>>

\* An UploadChecker (ReqULToCheck): may write a response, returns ok.
CheckUpload(does) ==
    /\ At("CheckUpload")
    /\ req.options.CheckUpload = "custom"
    /\ \E b \in does :
        /\ W' = IF b.wrote THEN Write("CheckUpload", 403, "custom") ELSE W
        /\ Return("CheckUpload", b.ok)
    /\ UNCHANGED <<setup, table, now, handler, req, dbCalls, validated>>

\* A ResultEditor (ReqFinalResult): GetResult/SetResult, no response writer.
EditResult ==
    /\ At("EditResult")
    /\ req.options.EditResult = "custom"
    /\ \E ok \in BOOLEAN,
          res \in {req.Result, NilValue, CustomValue, FuncValue} :
        /\ req' = [req EXCEPT !.Result = res]
        /\ Return("EditResult", ok)
    /\ UNCHANGED <<setup, table, now, handler, W, dbCalls, validated>>

\* A key function that hands the secret out whatever the signing method.
C38_Mutant_keyfunc(token, key) == [err |-> FALSE, key |-> key]

\* The key function defaultAuthenticator gives to jwt.ParseFromRequest: the
\* secret for a token whose method is an HMAC one, an error for any other.
keyfunc(token, key) ==
    IF token.alg = "HS256" THEN [err |-> FALSE, key |-> key] ELSE [err |-> TRUE]

\* ------------------------------------------------- the default authenticator
\* TokenValid without the check of the exp claim.
C10_Mutant_TokenValid(token, key, time) ==
    /\ token.present
    /\ token.alg = "HS256"
    /\ token.key = key

\* jwt.ParseFromRequest with the key function of defaultAuthenticator: the
\* key is handed out for an HMAC method only; the token is Valid when it is
\* there, its exp claim (if it has one) is not before the clock, and its
\* signature verifies with the key.
\* TokenValid taking the instant of the expiry for expired.
C11_Mutant_TokenValid(token, key, time) ==
    /\ token.present
    /\ token.alg = "HS256"
    /\ ~("exp" \in DOMAIN token.claims /\ time >= token.claims.exp)
    /\ token.key = key

TokenValid(token, key, time) ==
    /\ token.present
    /\ ~keyfunc(token, key).err
    /\ ~("exp" \in DOMAIN token.claims /\ time > token.claims.exp)
    /\ token.key = keyfunc(token, key).key

\* LoginModel.GetById: err # nil for an id it does not know.
GetById(id) == [err |-> id \notin Users, user |-> Principal(id)]

\* LoginModel.GetById of the model m: the User model of the tests as above,
\* another model gives a principal of its own type.
GetByIdOf(m, id) ==
    IF m = "User" THEN GetById(id)
    ELSE [err |-> id \notin Users, user |-> [user |-> id, model |-> m]]

\* The default authenticator with the LoginModel it was built with in place
\* of the one in g.options.
C37_Mutant_defaultAuthenticator ==
    /\ At("Authenticate")
    /\ req.options.Authenticate = "default"
    /\ IF TokenValid(req.token, g_options.JwtKey, now)
       THEN IF "id" \notin DOMAIN req.token.claims \/ g_options.LoginModel = "nil"
            THEN /\ W' = Write("Recoverer", 500, "Internal Server Error")
                 /\ req' = req
                 /\ trace' = Append(trace, [stage |-> "Authenticate", ok |-> FALSE])
                 /\ pc' = 0
                 /\ fatal' = "defaultAuthenticator"
            ELSE LET guser == GetByIdOf("User",
                                        req.token.claims.id) IN
                 /\ fatal' = fatal
                 /\ IF guser.err
                    THEN /\ W' = Write("Authenticate", 401, "Unauthorized")
                         /\ req' = req
                         /\ Return("Authenticate", FALSE)
                    ELSE /\ W' = W
                         /\ req' = [req EXCEPT !.LoginObject = guser.user]
                         /\ Return("Authenticate", TRUE)
       ELSE /\ W' = Write("Authenticate", 401, "Unauthorized")
            /\ req' = req
            /\ fatal' = fatal
            /\ Return("Authenticate", FALSE)
    /\ UNCHANGED <<g_db, parked,
                   g_options, router, heap, held, table, now, handler, dbCalls,
                   validated>>

\* The secret and the LoginModel are read from g.options when the request is
\* served.  A valid token without an id claim, or a nil LoginModel, makes the
\* call of GetById panic: the Recoverer middleware answers 500.
defaultAuthenticator ==
    /\ At("Authenticate")
    /\ req.options.Authenticate = "default"
    /\ IF TokenValid(req.token, g_options.JwtKey, now)
       THEN IF "id" \notin DOMAIN req.token.claims \/ g_options.LoginModel = "nil"
            THEN /\ W' = Write("Recoverer", 500, "Internal Server Error")
                 /\ req' = req
                 /\ trace' = Append(trace, [stage |-> "Authenticate", ok |-> FALSE])
                 /\ pc' = 0
                 /\ fatal' = "defaultAuthenticator"
            ELSE LET guser == GetByIdOf(g_options.LoginModel,
                                        req.token.claims.id) IN
                 /\ fatal' = fatal
                 /\ IF guser.err
                    THEN /\ W' = Write("Authenticate", 401, "Unauthorized")
                         /\ req' = req
                         /\ Return("Authenticate", FALSE)
                    ELSE /\ W' = W
                         /\ req' = [req EXCEPT !.LoginObject = guser.user]
                         /\ Return("Authenticate", TRUE)
       ELSE /\ W' = Write("Authenticate", 401, "Unauthorized")
            /\ req' = req
            /\ fatal' = fatal
            /\ Return("Authenticate", FALSE)
    /\ UNCHANGED <<g_db, parked,
                   g_options, router, heap, held, table, now, handler, dbCalls,
                   validated>>

\* ------------------------------------------------------------------- login
TTL == 1        \* time.Hour * 1, in the clock's unit
\* getJWTToken without the key: every token is signed with the one secret.
C12_Mutant_getJWTToken(id, key) ==
    [present |-> TRUE, alg |-> "HS256", key |-> JwtKey,
     claims |-> [id |-> id, exp |-> now + TTL]]

\* getJWTToken: an HS256 token with the id and an expiry of one hour from
\* now, signed with the key.
getJWTToken(id, key) ==
    [present |-> TRUE, alg |-> "HS256", key |-> key,
     claims |-> [id |-> id, exp |-> now + TTL]]

\* The bodies posted to the login path: not JSON, or the credentials of a
\* user; login 0 stands for credentials the LoginModel does not accept.
\* A body that is JSON but no JSON object (an array, a number, null).
NotAnObject == [read |-> TRUE, valid |-> TRUE, fields |-> [array |-> TRUE]]
LoginBodies ==
    {Malformed, NotAnObject} \cup
    {[read |-> TRUE, valid |-> TRUE, fields |-> [login |-> u]] : u \in 0..MaxUser}
\* LoginModel.CheckLoginDetails: the id of the user, or an error.
CheckLoginDetails(m) == [err |-> m.login = 0, user_id |-> m.login]

\* The servers a client can log in to: g, the Grapi whose routes are served,
\* and another Grapi with the same LoginModel and a secret of its own.
Grapis == {"g", "other"}
OptionsOf(api) ==
    IF api = "g" THEN g_options ELSE [getTestApi EXCEPT !.JwtKey = "otherKey"]

\* loginHandler without the return after "Login failed": it goes on to sign a
\* token for the id CheckLoginDetails gave with its error.
C33_Mutant_loginHandler(g) ==
    /\ handler = "idle"
    /\ g = "g" => Route("login", 0) \in router
    /\ handler' = "login"
    /\ pc' = 0
    /\ dbCalls' = <<>>
    /\ validated' = <<>>
    /\ \E body \in LoginBodies :
        /\ req' = [NoRequest EXCEPT !.api = g, !.method = "POST", !.body = body]
        /\ IF ~body.valid
           THEN /\ W' = <<[by |-> "loginHandler", code |-> 422,
                           body |-> "Malformed JSON"]>>
                /\ trace' = <<[stage |-> "loginHandler", ok |-> FALSE]>>
                /\ held' = held
           ELSE IF body = NotAnObject
           THEN /\ W' = <<>>
                /\ trace' = <<[stage |-> "loginHandler", ok |-> FALSE]>>
                /\ held' = held
           ELSE LET login == CheckLoginDetails(body.fields) IN
                IF login.err
                THEN LET token == getJWTToken(login.user_id,
                                              OptionsOf(g).JwtKey) IN
                     /\ W' = <<[by |-> "loginHandler", code |-> 403,
                                body |-> "Login failed"],
                               [by |-> "loginHandler", code |-> 403,
                                body |-> [token |-> token]]>>
                     /\ trace' = <<[stage |-> "loginHandler", ok |-> FALSE]>>
                     /\ held' = token
                ELSE LET token == getJWTToken(login.user_id,
                                              OptionsOf(g).JwtKey) IN
                     /\ W' = <<[by |-> "loginHandler", code |-> 200,
                                body |-> [token |-> token]]>>
                     /\ trace' = <<[stage |-> "loginHandler", ok |-> TRUE]>>
                     /\ held' = token
    /\ UNCHANGED <<g_db, parked, table, now, g_options, router, heap, fatal>>

\* The handler SetAuth registers, of the Grapi g.  It has no callbacks: the
\* whole handler is one step.
loginHandler(g) ==
    /\ handler = "idle"
    /\ g = "g" => Route("login", 0) \in router
    /\ handler' = "login"
    /\ pc' = 0
    /\ dbCalls' = <<>>
    /\ validated' = <<>>
    /\ \E body \in LoginBodies :
        /\ req' = [NoRequest EXCEPT !.api = g, !.method = "POST", !.body = body]
        /\ IF ~body.valid
           THEN /\ W' = <<[by |-> "loginHandler", code |-> 422,
                           body |-> "Malformed JSON"]>>
                /\ trace' = <<[stage |-> "loginHandler", ok |-> FALSE]>>
                /\ held' = held
           ELSE IF body = NotAnObject
           THEN /\ W' = <<>>
                /\ trace' = <<[stage |-> "loginHandler", ok |-> FALSE]>>
                /\ held' = held
           ELSE LET login == CheckLoginDetails(body.fields) IN
                IF login.err
                THEN /\ W' = <<[by |-> "loginHandler", code |-> 403,
                                body |-> "Login failed"]>>
                     /\ trace' = <<[stage |-> "loginHandler", ok |-> FALSE]>>
                     /\ held' = held
                ELSE LET token == getJWTToken(login.user_id,
                                              OptionsOf(g).JwtKey) IN
                     /\ W' = <<[by |-> "loginHandler", code |-> 200,
                                body |-> [token |-> token]]>>
                     /\ trace' = <<[stage |-> "loginHandler", ok |-> TRUE]>>
                     /\ held' = token
    /\ UNCHANGED <<g_db, parked, table, now, g_options, router, heap, fatal>>

\* GetItemById looking the id up on g.db instead of the request's handle.
C6_Mutant_GetItemById ==
    /\ At("GetItemById")
    /\ LET found == FindById(g_db, req.id) IN
       IF found = {}
       THEN /\ W' = Write("GetItemById", 404, "Not Found")
            /\ req' = req
            /\ Return("GetItemById", FALSE)
       ELSE /\ W' = W
            /\ req' = [req EXCEPT !.Result = Item(CHOOSE r \in found : TRUE)]
            /\ Return("GetItemById", TRUE)
    /\ dbCalls' = Call("Find", req.DB, FALSE)
    /\ validated' = validated
    /\ UNCHANGED <<setup, table, now, handler>>

\* GetItemById looking the id up on the handle of the Grapi.
C26_Mutant_GetItemById ==
    /\ At("GetItemById")
    /\ LET found == FindById(g_db, req.id) IN
       IF found = {}
       THEN /\ W' = Write("GetItemById", 404, "Not Found")
            /\ req' = req
            /\ Return("GetItemById", FALSE)
       ELSE /\ W' = W
            /\ req' = [req EXCEPT !.Result = Item(CHOOSE r \in found : TRUE)]
            /\ Return("GetItemById", TRUE)
    /\ dbCalls' = Call("Find", g_db, FALSE)
    /\ validated' = validated
    /\ UNCHANGED <<setup, table, now, handler>>

GetItemById ==
    /\ At("GetItemById")
    /\ LET found == FindById(req.DB, req.id) IN
       IF found = {}
       THEN /\ W' = Write("GetItemById", 404, "Not Found")
            /\ req' = req
            /\ Return("GetItemById", FALSE)
       ELSE /\ W' = W
            /\ req' = [req EXCEPT !.Result = Item(CHOOSE r \in found : TRUE)]
            /\ Return("GetItemById", TRUE)
    /\ dbCalls' = Call("Find", req.DB, FALSE)
    /\ validated' = validated
    /\ UNCHANGED <<setup, table, now, handler>>

\* GetItems fetching on the handle of the Grapi, not on the request's.
C25_Mutant_GetItems ==
    /\ At("GetItems")
    /\ req' = [req EXCEPT !.Result = Slice(Visible(g_db))]
    /\ dbCalls' = Call("Find", g_db, FALSE)
    /\ validated' = validated
    /\ Return("GetItems", TRUE)
    /\ UNCHANGED <<setup, table, now, handler, W>>

\* GetItems that answers 404 like GetItemById when it finds no record.
C35_Mutant_GetItems ==
    /\ At("GetItems")
    /\ dbCalls' = Call("Find", req.DB, FALSE)
    /\ validated' = validated
    /\ IF Visible(req.DB) = {}
       THEN /\ W' = Write("GetItems", 404, "Not Found")
            /\ req' = req
            /\ Return("GetItems", FALSE)
       ELSE /\ W' = W
            /\ req' = [req EXCEPT !.Result = Slice(Visible(req.DB))]
            /\ Return("GetItems", TRUE)
    /\ UNCHANGED <<setup, table, now, handler>>

\* items := getReflectedSlicePtr(r.Type): a pointer to a new, empty slice of
\* the model's type.
getReflectedSlicePtr(Type) == Slice({})

GetItems ==
    /\ At("GetItems")
    /\ req' = [req EXCEPT !.Result = [getReflectedSlicePtr(req.Type) EXCEPT
                                         !.items = Visible(req.DB)]]
    /\ dbCalls' = Call("Find", req.DB, FALSE)
    /\ validated' = validated
    /\ Return("GetItems", TRUE)
    /\ UNCHANGED <<setup, table, now, handler, W>>

\* The validation that refuses every map that is not nil, the empty one too.
C20_Mutant_NeedsValidationCase(s) ==
    IF NeedsValidation(req.Type)
    THEN \E err \in ValidateUpload(req.Type) :
            /\ validated' = Append(validated, err)
            /\ IF ~err.nil
               THEN W' = Write(s, 422, "errors") /\ Return(s, FALSE)
               ELSE W' = W /\ Return(s, TRUE)
    ELSE validated' = validated /\ W' = W /\ Return(s, TRUE)

\* switch r.Uploaded.(type) { case NeedsValidation: ... } at the end of stage
\* s: an entity that implements ValidateUpload is validated, and a map with
\* errors is answered with 422 and {"errors": <the map>}.
NeedsValidationCase(s) ==
    IF NeedsValidation(req.Type)
    THEN \E err \in ValidateUpload(req.Type) :
            /\ validated' = Append(validated, err)
            /\ IF ~err.nil /\ Cardinality(err.keys) # 0
               THEN W' = Write(s, 422, "errors") /\ Return(s, FALSE)
               ELSE W' = W /\ Return(s, TRUE)
    ELSE validated' = validated /\ W' = W /\ Return(s, TRUE)

\* ParseUpload going on with the empty item when the body does not parse.
C7_Mutant_ParseUpload ==
    /\ At("ParseUpload")
    /\ \E body \in Bodies :
        /\ req' = [req EXCEPT
                     !.body = body,
                     !.Uploaded = Item(IF body.valid
                                       THEN Unmarshal(body.fields, ZeroItem)
                                       ELSE ZeroItem)]
        /\ W' = W
        /\ Return("ParseUpload", TRUE)
    /\ UNCHANGED <<setup, table, now, handler, dbCalls, validated>>

ParseUpload ==
    /\ At("ParseUpload")
    /\ \E body \in Bodies :
       IF ~body.valid
       THEN /\ W' = Write("ParseUpload", 422, "")
            /\ req' = [req EXCEPT !.body = body]
            /\ validated' = validated
            /\ Return("ParseUpload", FALSE)
       ELSE /\ req' = [req EXCEPT
                         !.body = body,
                         !.Uploaded = Item(Unmarshal(body.fields, ZeroItem))]
            /\ NeedsValidationCase("ParseUpload")
    /\ UNCHANGED <<setup, table, now, handler, dbCalls>>

\* PostDB answering with a copy of the upload taken before Create has filled
\* in the primary key.
C24_Mutant_PostDB ==
    /\ At("PostDB")
    /\ \E post \in Create(req.Uploaded.item) :
        /\ dbCalls' = Call("Create", g_db, post.err)
        /\ validated' = validated
        /\ table' = post.table
        /\ IF post.err
           THEN /\ W' = Write("PostDB", 422, "")
                /\ req' = req
                /\ Return("PostDB", FALSE)
           ELSE /\ W' = W
                /\ req' = [req EXCEPT !.Uploaded = Item(post.rec),
                                      !.Result = req.Uploaded]
                /\ Return("PostDB", TRUE)
    /\ UNCHANGED <<setup, now, handler>>

\* PostDB not looking at the error of Create, as PatchDB does with Save.
C8_Mutant_PostDB ==
    /\ At("PostDB")
    /\ \E post \in Create(req.Uploaded.item) :
        /\ dbCalls' = Call("Create", g_db, post.err)
        /\ validated' = validated
        /\ table' = post.table
        /\ req' = [req EXCEPT !.Uploaded = Item(post.rec),
                              !.Result = Item(post.rec)]
    /\ W' = W
    /\ Return("PostDB", TRUE)
    /\ UNCHANGED <<setup, now, handler>>

PostDB ==
    /\ At("PostDB")
    /\ \E post \in Create(req.Uploaded.item) :
        /\ dbCalls' = Call("Create", g_db, post.err)
        /\ validated' = validated
        /\ table' = post.table
        /\ IF post.err
           THEN /\ W' = Write("PostDB", 422, "")
                /\ req' = req
                /\ Return("PostDB", FALSE)
           ELSE /\ W' = W
                /\ req' = [req EXCEPT !.Uploaded = Item(post.rec),
                                      !.Result = Item(post.rec)]
                /\ Return("PostDB", TRUE)
    /\ UNCHANGED <<setup, now, handler>>

\* PatchResultWithUploaded without the comparison of the ids.
C5_Mutant_PatchResultWithUploaded ==
    /\ At("PatchResultWithUploaded")
    /\ \E body \in Bodies :
       IF ~body.valid
       THEN /\ W' = Write("PatchResultWithUploaded", 422, "")
            /\ req' = [req EXCEPT !.body = body]
            /\ Return("PatchResultWithUploaded", FALSE)
       ELSE LET merged == Item(Unmarshal(body.fields, req.Result.item)) IN
            /\ req' = [req EXCEPT !.body = body, !.Result = merged,
                                  !.Uploaded = merged]
            /\ W' = W
            /\ Return("PatchResultWithUploaded", TRUE)
    /\ UNCHANGED <<setup, table, now, handler, dbCalls, validated>>

PatchResultWithUploaded ==
    /\ At("PatchResultWithUploaded")
    /\ \E body \in Bodies :
       LET beforeID == getID(req.Result) IN
       IF ~body.valid
       THEN /\ W' = Write("PatchResultWithUploaded", 422, "")
            /\ req' = [req EXCEPT !.body = body]
            /\ validated' = validated
            /\ Return("PatchResultWithUploaded", FALSE)
       ELSE LET merged == Item(Unmarshal(body.fields, req.Result.item))
                afterID == getID(merged)
            IN
            IF beforeID # afterID
            THEN /\ W' = Write("PatchResultWithUploaded", 422, "")
                 /\ req' = [req EXCEPT !.body = body, !.Result = merged]
                 /\ validated' = validated
                 /\ Return("PatchResultWithUploaded", FALSE)
            ELSE /\ req' = [req EXCEPT !.body = body, !.Result = merged,
                                       !.Uploaded = merged]
                 /\ NeedsValidationCase("PatchResultWithUploaded")
    /\ UNCHANGED <<setup, table, now, handler, dbCalls>>

\* PatchDB saving through the request's handle.
C4_Mutant_PatchDB ==
    /\ At("PatchDB")
    /\ \E save \in Save(req.Uploaded.item) :
        /\ dbCalls' = Call("Save", req.DB, save.err)
        /\ validated' = validated
        /\ table' = save.table
    /\ req' = [req EXCEPT !.Result = req.Uploaded]
    /\ Return("PatchDB", TRUE)
    /\ UNCHANGED <<setup, now, handler, W>>

PatchDB ==
    /\ At("PatchDB")
    /\ \E save \in Save(req.Uploaded.item) :
        /\ dbCalls' = Call("Save", g_db, save.err)
        /\ validated' = validated
        /\ table' = save.table
    /\ req' = [req EXCEPT !.Result = req.Uploaded]
    /\ Return("PatchDB", TRUE)
    /\ UNCHANGED <<setup, now, handler, W>>

DeleteFromDB ==
    /\ At("DeleteFromDB")
    /\ \E del \in Delete(req.Result.item) :
        /\ dbCalls' = Call("Delete", g_db, del.err)
        /\ validated' = validated
        /\ table' = del.table
    /\ Return("DeleteFromDB", TRUE)
    /\ UNCHANGED <<setup, now, handler, req, W>>

\* SerialiseResult without the test for a nil result: nil is encoded as null.
C22_Mutant_SerialiseResult ==
    /\ At("SerialiseResult")
    /\ IF req.Result # NilValue /\ Encode(req.Result).err
       THEN /\ W' = Write("SerialiseResult", 422, "Failed to encode JSON")
            /\ Return("SerialiseResult", FALSE)
       ELSE /\ W' = Write("SerialiseResult", 200,
                          IF req.Result = NilValue THEN "null"
                          ELSE Encode(req.Result).json)
            /\ Return("SerialiseResult", TRUE)
    /\ UNCHANGED <<setup, table, now, handler, req, dbCalls, validated>>

\* SerialiseResult encoding straight onto the wire: what was encoded before
\* the failure is written, and then the error.
C3_Mutant_SerialiseResult ==
    /\ At("SerialiseResult")
    /\ IF req.Result = NilValue
       THEN /\ W' = Write("SerialiseResult", 404, "Not Found")
            /\ Return("SerialiseResult", FALSE)
       ELSE IF Encode(req.Result).err
       THEN /\ W' = Append(Write("SerialiseResult", 200, "{"),
                           [by |-> "SerialiseResult", code |-> 422,
                            body |-> "Failed to encode JSON"])
            /\ Return("SerialiseResult", FALSE)
       ELSE /\ W' = Write("SerialiseResult", 200, Encode(req.Result).json)
            /\ Return("SerialiseResult", TRUE)
    /\ UNCHANGED <<setup, table, now, handler, req, dbCalls, validated>>

SerialiseResult ==
    /\ At("SerialiseResult")
    /\ IF req.Result = NilValue
       THEN /\ W' = Write("SerialiseResult", 404, "Not Found")
            /\ Return("SerialiseResult", FALSE)
       ELSE IF Encode(req.Result).err
       THEN /\ W' = Write("SerialiseResult", 422, "Failed to encode JSON")
            /\ Return("SerialiseResult", FALSE)
       ELSE /\ W' = Write("SerialiseResult", 200, Encode(req.Result).json)
            /\ Return("SerialiseResult", TRUE)
    /\ UNCHANGED <<setup, table, now, handler, req, dbCalls, validated>>

\* ------------------------------------------------------------ specification
Tick ==
    /\ now < MaxTime
    /\ now' = now + 1
    /\ UNCHANGED <<setup, table, handler, req, pc, W, trace, dbCalls, validated>>

\* A request to a route whose RouteOptions hold custom callbacks only.
Request ==
    \E h \in Handlers, o \in Registered :
    \E id \in IF HasId(h) THEN Ids ELSE {0},
       Type \in IF HasBody(h) THEN Types ELSE {"Widget"} :
        NewRequest(h, id, Type, Initialise(o).ro, NoToken)

\* A request, with any token or none, to a route registered with
\* RouteOptions{UseDefaultAuth: true}.
AuthRequest ==
    \E h \in Handlers, token \in Tokens :
    \E id \in IF HasId(h) THEN Ids ELSE {0},
       Type \in IF HasBody(h) THEN Types ELSE {"Widget"} :
        NewRequest(h, id, Type,
                   Initialise([EmptyRouteOptions EXCEPT !.UseDefaultAuth = TRUE]).ro,
                   token)

\* New(o): panics without a Db.
New(o) ==
    /\ g_options = NilValue
    /\ IF ~o.Db
       THEN fatal' = "New" /\ g_options' = g_options
       ELSE fatal' = "" /\ g_options' = o
    /\ UNCHANGED <<g_db, parked,
                   router, heap, held, table, now, handler, req, pc, W, trace,
                   dbCalls, validated>>

\* SetAuth that checks the JwtKey after it has set the LoginModel and the
\* login route.
C17_Mutant_SetAuth(model) ==
    /\ g_options # NilValue
    /\ g_options' = [g_options EXCEPT !.LoginModel = model]
    /\ router' = router \cup {Route("login", 0)}
    /\ fatal' = IF g_options.JwtKey = NoKey THEN "SetAuth" ELSE ""
    /\ UNCHANGED <<g_db, parked,
                   heap, held, table, now, handler, req, pc, W, trace, dbCalls,
                   validated>>

\* SetAuth(model, path): panics without a JwtKey, before it sets anything.
SetAuth(model) ==
    /\ g_options # NilValue
    /\ IF g_options.JwtKey = NoKey
       THEN fatal' = "SetAuth" /\ UNCHANGED <<g_options, router>>
       ELSE /\ fatal' = ""
            /\ g_options' = [g_options EXCEPT !.LoginModel = model]
            /\ router' = router \cup {Route("login", 0)}
    /\ UNCHANGED <<g_db, parked,
                   heap, held, table, now, handler, req, pc, W, trace, dbCalls,
                   validated>>

\* AddDefaultRoutes whose delete option falls back to the first option
\* instead of the edit option.
C18_Mutant_AddDefaultRoutes(options) ==
    /\ g_options # NilValue
    /\ Len(heap) < MaxConfigs
    /\ IF Len(options) > 3
       THEN fatal' = "AddDefaultRoutes" /\ UNCHANGED <<heap, router>>
       ELSE LET base == Len(heap)
                viewOption == IF Len(options) > 0 THEN base + 1 ELSE 0
                editOption == IF Len(options) > 1 THEN base + 2 ELSE viewOption
                deleteOption == IF Len(options) > 2 THEN base + 3 ELSE viewOption
                s0 == [heap |-> heap \o options, router |-> router,
                       panic |-> FALSE]
                s1 == AddRoute(s0, "item", viewOption)
                s2 == AddRoute(s1, "index", viewOption)
                s3 == AddRoute(s2, "post", editOption)
                s4 == AddRoute(s3, "patch", editOption)
                s5 == AddRoute(s4, "delete", deleteOption)
            IN  /\ heap' = s5.heap
                /\ router' = s5.router
                /\ fatal' = IF s5.panic THEN "Initialise" ELSE ""
    /\ UNCHANGED <<g_db, parked,
                   g_options, held, table, now, handler, req, pc, W, trace,
                   dbCalls, validated>>

\* AddDefaultRoutes that accepts a fourth option and ignores it.
C19_Mutant_AddDefaultRoutes(options) ==
    /\ g_options # NilValue
    /\ Len(heap) < MaxConfigs
    /\ IF Len(options) > 4
       THEN fatal' = "AddDefaultRoutes" /\ UNCHANGED <<heap, router>>
       ELSE LET base == Len(heap)
                viewOption == IF Len(options) > 0 THEN base + 1 ELSE 0
                editOption == IF Len(options) > 1 THEN base + 2 ELSE viewOption
                deleteOption == IF Len(options) > 2 THEN base + 3 ELSE editOption
                s0 == [heap |-> heap \o options, router |-> router,
                       panic |-> FALSE]
                s1 == AddRoute(s0, "item", viewOption)
                s2 == AddRoute(s1, "index", viewOption)
                s3 == AddRoute(s2, "post", editOption)
                s4 == AddRoute(s3, "patch", editOption)
                s5 == AddRoute(s4, "delete", deleteOption)
            IN  /\ heap' = s5.heap
                /\ router' = s5.router
                /\ fatal' = IF s5.panic THEN "Initialise" ELSE ""
    /\ UNCHANGED <<g_db, parked,
                   g_options, held, table, now, handler, req, pc, W, trace,
                   dbCalls, validated>>

\* AddDefaultRoutes(modelPtr, options...): the five Add...Route calls in
\* their order; a panic of one of them ends the call there.
AddDefaultRoutes(options) ==
    /\ g_options # NilValue
    /\ Len(heap) < MaxConfigs
    /\ IF Len(options) > 3
       THEN fatal' = "AddDefaultRoutes" /\ UNCHANGED <<heap, router>>
       ELSE LET base == Len(heap)
                viewOption == IF Len(options) > 0 THEN base + 1 ELSE 0
                editOption == IF Len(options) > 1 THEN base + 2 ELSE viewOption
                deleteOption == IF Len(options) > 2 THEN base + 3 ELSE editOption
                s0 == [heap |-> heap \o options, router |-> router,
                       panic |-> FALSE]
                s1 == AddRoute(s0, "item", viewOption)
                s2 == AddRoute(s1, "index", viewOption)
                s3 == AddRoute(s2, "post", editOption)
                s4 == AddRoute(s3, "patch", editOption)
                s5 == AddRoute(s4, "delete", deleteOption)
            IN  /\ heap' = s5.heap
                /\ router' = s5.router
                /\ fatal' = IF s5.panic THEN "Initialise" ELSE ""
    /\ UNCHANGED <<g_db, parked,
                   g_options, held, table, now, handler, req, pc, W, trace,
                   dbCalls, validated>>

\* ro := &RouteOptions{...}: the caller makes a RouteOptions of its own.
NewRouteOptions(ro) ==
    /\ Len(heap) < MaxConfigs
    /\ heap' = Append(heap, ro)
    /\ UNCHANGED <<g_db, parked,
                   g_options, router, fatal, held, table, now, handler, req, pc,
                   W, trace, dbCalls, validated>>

\* AddGetRoute ... AddDeleteRoute(modelP, ro), called with a RouteOptions of
\* the caller, or nil.
AddRouteCall(h, ro) ==
    /\ g_options # NilValue
    /\ Cardinality(router) < MaxRoutes
    /\ ro = 0 => Len(heap) < MaxConfigs
    /\ LET s1 == AddRoute([heap |-> heap, router |-> router, panic |-> FALSE],
                          h, ro)
       IN  /\ heap' = s1.heap
           /\ router' = s1.router
           /\ fatal' = IF s1.panic THEN "Initialise" ELSE ""
    /\ UNCHANGED <<g_db, parked,
                   g_options, held, table, now, handler, req, pc, W, trace,
                   dbCalls, validated>>

\* Setting a server up: New, SetAuth and the routes of a model.
Construct ==
    \E o \in {p \in Options : /\ p.JwtKey \in {NoKey, JwtKey}
                                /\ p.LoginModel \in {"nil", "User"}} : New(o)
Setup ==
    \/ Construct
    \/ \E model \in LoginModels : SetAuth(model)
    \/ \E options \in OptionLists : AddDefaultRoutes(options)
    \/ loginHandler("g")
    \/ HandlerReturns

\* Registering single routes with RouteOptions the caller holds.
Routes ==
    \/ Construct
    \/ \E ro \in SetupOptions : NewRouteOptions(ro)
    \/ \E h \in Handlers, ro \in 0..Len(heap) : AddRouteCall(h, ro)

\* Nothing has been constructed yet.
InitSetup ==
    /\ table = {[id |-> 1, name |-> "w"]}
    /\ now = 0
    /\ handler = "idle"
    /\ req = NoRequest
    /\ pc = 0
    /\ W = <<>>
    /\ trace = <<>>
    /\ dbCalls = <<>>
    /\ validated = <<>>
    /\ g_options = NilValue
    /\ router = {}
    /\ heap = <<>>
    /\ fatal = ""
    /\ held = NoToken
    /\ g_db = api_db
    /\ parked = Idle

\* The client logs in to one of the servers.
Login == \E g \in Grapis : loginHandler(g)

\* The clock of the login specification: it runs on until every token that
\* was issued up to MaxTime has expired.
Clock ==
    /\ now < MaxTime + TTL
    /\ now' = now + 1
    /\ UNCHANGED <<setup, table, handler, req, pc, W, trace, dbCalls, validated>>

\* A request, with the token the client holds, to a route registered with
\* RouteOptions{UseDefaultAuth: true}.
HeldRequest ==
    \E h \in Handlers :
    \E id \in IF HasId(h) THEN Ids ELSE {0},
       Type \in IF HasBody(h) THEN Types ELSE {"Widget"} :
        NewRequest(h, id, Type,
                   Initialise([EmptyRouteOptions EXCEPT !.UseDefaultAuth = TRUE]).ro,
                   held)

Init ==
    /\ table = {[id |-> 1, name |-> "w"]}
    /\ now = 0
    /\ handler = "idle"
    /\ req = NoRequest
    /\ pc = 0
    /\ W = <<>>
    /\ trace = <<>>
    /\ dbCalls = <<>>
    /\ validated = <<>>
    /\ g_options = getTestApi
    /\ router = {Route("login", 0)}
    /\ heap = <<>>
    /\ fatal = ""
    /\ held = NoToken
    /\ g_db = api_db
    /\ parked = Idle

Callbacks(does) ==
    \/ Authenticate(does)
    \/ Authorize(does)
    \/ CheckUpload(does)
    \/ Query
    \/ EditResult

Stages ==
    \/ Skip
    \/ GetItemById
    \/ GetItems
    \/ ParseUpload
    \/ PostDB
    \/ PatchResultWithUploaded
    \/ PatchDB
    \/ DeleteFromDB
    \/ SerialiseResult

Next == Request \/ Callbacks(Kept) \/ Stages \/ HandlerReturns

Spec == Init /\ [][Next]_vars

\* The routes with the default authenticator, under a running clock.
NextAuth ==
    AuthRequest \/ Tick \/ defaultAuthenticator \/ Stages \/ HandlerReturns

SpecAuth == Init /\ [][NextAuth]_vars

\* Logging in and presenting the token, under a running clock.
NextLogin ==
    Login \/ Clock \/ HeldRequest \/ defaultAuthenticator \/ Stages
        \/ HandlerReturns

SpecLogin == Init /\ [][NextLogin]_vars

SpecSetup == InitSetup /\ [][Setup]_vars

SpecRoutes == InitSetup /\ [][Routes]_vars

\* An application that makes one RouteOptions, adds the GET and DELETE routes
\* of a model with it (going on after a panic it recovered from) and serves
\* requests, with no token or with a token signed with a key, on the routes
\* it has registered so far.
ServedHandlers == {"item", "delete"}
ServedTokens == {NoToken} \cup {getJWTToken(1, key) : key \in {NoKey, JwtKey}}
Serve ==
    \E key \in {NoKey, JwtKey} :
        New([Db |-> TRUE, JwtKey |-> key, LoginModel |-> "nil"])
OwnOptions == heap = <<>> /\ \E ro \in SetupOptions : NewRouteOptions(ro)
OwnRoute == Len(heap) = 1 /\ \E h \in ServedHandlers : AddRouteCall(h, 1)
RoutedRequest ==
    \E r \in router, token \in ServedTokens, id \in Ids :
        /\ r.ro # 0
        /\ NewRequest(r.handler, id, "Widget", heap[r.ro], token)
NextServed ==
    \/ Serve
    \/ \E model \in LoginModels : SetAuth(model)
    \/ OwnOptions
    \/ OwnRoute
    \/ RoutedRequest
    \/ Authenticate(Kept)
    \/ defaultAuthenticator
    \/ Skip
    \/ GetItemById
    \/ DeleteFromDB
    \/ SerialiseResult
    \/ HandlerReturns

SpecServed == InitSetup /\ [][NextServed]_vars

\* Callbacks that may do anything their interface lets them do.
NextAny == Request \/ Callbacks(Anything) \/ Stages \/ HandlerReturns

SpecAny == Init /\ [][NextAny]_vars

\* ----------------------------------------------------------- two goroutines
\* net/http calls ServeHTTP in a goroutine of its own for each connection, so
\* two calls of a handler can be in progress at once, each with the request
\* struct it has built (req := request{...}, a local of the call).  The
\* variables handler, req, pc, W, trace, dbCalls and validated are those of
\* the goroutine that takes the next step; parked holds those of the other
\* one.  The scheduler can switch between them before any stage; a call whose
\* chain has ended returns first, which touches nothing the other one holds.
Running ==
    [handler |-> handler, req |-> req, pc |-> pc, W |-> W, trace |-> trace,
     dbCalls |-> dbCalls, validated |-> validated]
Switch ==
    /\ pc > 0 \/ handler = "idle"
    /\ parked # Running
    /\ parked' = Running
    /\ handler' = parked.handler
    /\ req' = parked.req
    /\ pc' = parked.pc
    /\ W' = parked.W
    /\ trace' = parked.trace
    /\ dbCalls' = parked.dbCalls
    /\ validated' = parked.validated
    /\ UNCHANGED <<table, now, g_options, router, heap, fatal, held, g_db>>

\* The route the concurrent requests go to: PATCH of an item, with an
\* Authenticate and a Query callback.
ConcHandlers == {"patch"}
ConcOptions ==
    [EmptyRouteOptions EXCEPT !.Authenticate = "custom", !.Query = "custom"]
ConcRequest ==
    \E h \in ConcHandlers, id \in Ids :
        NewRequest(h, id, "Widget", Initialise(ConcOptions).ro, NoToken)

NextConc ==
    \/ ConcRequest
    \/ Switch
    \/ Authenticate(Kept)
    \/ Query
    \/ Skip
    \/ GetItemById
    \/ PatchResultWithUploaded
    \/ PatchDB
    \/ SerialiseResult
    \/ HandlerReturns

SpecConc == Init /\ [][NextConc]_vars

\* ------------------------------------------------------------------- claims
Executed == [i \in 1..Len(trace) |-> trace[i].stage]
Ran(s) == \E i \in 1..Len(trace) : trace[i].stage = s
Last(seq) == seq[Len(seq)]
LastIs(s, ok) == trace # <<>> /\ Last(trace) = [stage |-> s, ok |-> ok]
WroteBy(s) == \E j \in 1..Len(W) : W[j].by = s
IsPrefix(a, b) == Len(a) <= Len(b) /\ SubSeq(b, 1, Len(a)) = a
Serving(h) == handler = h

\* The order of stages each verb is specified to have.
C1_Order(h) ==
    CASE h = "item" ->
           <<"Authenticate", "Authorize", "Query", "GetItemById", "EditResult",
             "SerialiseResult">>
      [] h = "index" ->
           <<"Authenticate", "Authorize", "Query", "GetItems", "EditResult",
             "SerialiseResult">>
      [] h = "post" ->
           <<"Authenticate", "Authorize", "ParseUpload", "CheckUpload",
             "PostDB", "EditResult", "SerialiseResult">>
      [] h = "patch" ->
           <<"Authenticate", "Authorize", "Query", "GetItemById",
             "PatchResultWithUploaded", "CheckUpload", "PatchDB",
             "EditResult", "SerialiseResult">>
      [] h = "delete" ->
           <<"Authenticate", "Authorize", "Query", "GetItemById",
             "DeleteFromDB", "EditResult", "SerialiseResult">>
C1_IsCalled(s) == s \notin OptionalStages \/ req.options[s] # "nil"

\* C1: for every request the stages that have run are a prefix of the verb's
\* fixed sequence, the optional stages that are not configured left out: each
\* stage runs at most once and in the verb's order; POST never runs Query,
\* DELETE and GET never run CheckUpload.
C1_StagesArePrefixOfOrder ==
    handler # "idle" =>
        IsPrefix(Executed, SelectSeq(C1_Order(handler), C1_IsCalled))

\* C1 witness: a PATCH with all five callbacks set has run all nine stages.
C1_Witness ==
    /\ Serving("patch")
    /\ pc = 0
    /\ Len(trace) = Len(C1_Order("patch"))

\* The callbacks whose interface holds the response writer.
WriterStages == {"Authenticate", "Authorize", "CheckUpload"}

\* C2: when an optional stage has returned false, it is the last stage that
\* ran, the handler has returned, and exactly one response has been written
\* (stated for callbacks that, holding the response writer, wrote their error
\* before returning false).
C2_HaltWritesExactlyOneResponse ==
    \A i \in 1..Len(trace) :
        (/\ trace[i].stage \in OptionalStages
         /\ ~trace[i].ok
         /\ (trace[i].stage \in WriterStages => WroteBy(trace[i].stage)))
        => (i = Len(trace) /\ pc = 0 /\ Len(W) = 1)

\* C3 as claimed: at most one response is written, whatever the callbacks do.
C3_AtMostOneResponse == Len(W) <= 1

C3_NoCallbackWroteAndWentOn ==
    \A i \in 1..Len(trace) :
        (trace[i].stage \in OptionalStages /\ trace[i].ok)
            => ~WroteBy(trace[i].stage)

\* C3 amended: if no callback has written a response and then returned true,
\* at most one response has been written.
C3_AtMostOneResponseIfCallbacksHalt ==
    C3_NoCallbackWroteAndWentOn => Len(W) <= 1

\* C3 witness: a PATCH with all callbacks set that its CheckUpload refused
\* with a response of its own.
C3_Witness ==
    /\ Serving("patch")
    /\ pc = 0
    /\ LastIs("CheckUpload", FALSE)
    /\ Len(W) = 1
    /\ Len(trace) = 6

\* C4: fetch-by-id and fetch-all are made on the request's handle, which is
\* the one the Query callback set (g.db when no Query ran); create, update
\* and delete are always made on g.db.
C4_HandleOfEachCall ==
    /\ \A i \in 1..Len(dbCalls) :
          IF dbCalls[i].op = "Find"
          THEN dbCalls[i].handle = req.DB
          ELSE dbCalls[i].handle = api_db
    /\ (req.DB # api_db => Ran("Query"))

\* C4 witness: a PATCH fetched on a narrowed handle and saved.
C4_Witness ==
    /\ Len(dbCalls) = 2
    /\ dbCalls[1].op = "Find"
    /\ dbCalls[1].handle # api_db
    /\ dbCalls[2].op = "Save"

BodyGives(field) ==
    req.body.read /\ req.body.valid /\ field \in DOMAIN req.body.fields
\* The body of the PATCH gives an id other than the one of the fetched item.
C5_ChangesId == BodyGives("id") /\ req.body.fields.id # req.id

C5_Halted ==
    (Serving("patch") /\ C5_ChangesId) =>
        /\ pc = 0
        /\ LastIs("PatchResultWithUploaded", FALSE)
        /\ W = <<[by |-> "PatchResultWithUploaded", code |-> 422, body |-> ""]>>
        /\ ~Ran("CheckUpload") /\ ~Ran("PatchDB") /\ ~Ran("EditResult")
        /\ \A i \in 1..Len(dbCalls) : dbCalls[i].op = "Find"
C5_TableKept ==
    (Serving("patch") /\ pc > 0 /\ table' # table) =>
        (At("PatchDB") /\ ~C5_ChangesId)

\* C5: a PATCH whose body changes the id of the fetched item gets 422 from
\* the merge, whatever else the body gives: CheckUpload, the update and
\* EditResult do not run, and a PATCH changes the table only in its update,
\* which such a body never reaches.
C5_IdChangeIs422 == [](C5_Halted) /\ [][C5_TableKept]_vars

\* C5 witness: a refused PATCH whose body changes the id and the name.
C5_Witness ==
    /\ Serving("patch")
    /\ C5_ChangesId
    /\ BodyGives("name")
    /\ req.body.fields.name # "w"
    /\ LastIs("PatchResultWithUploaded", FALSE)

\* C6: when the request's handle shows no record with the path's id,
\* GetItemById fails; and when it fails it has written 404, the handler has
\* returned, the body has not been read, EditResult has not run and the only
\* call to the store is the lookup.
C6_NotFoundIs404 ==
    /\ (trace # <<>> /\ Last(trace).stage = "GetItemById"
           /\ FindById(req.DB, req.id) = {}) => ~Last(trace).ok
    /\ \A i \in 1..Len(trace) :
          (trace[i].stage = "GetItemById" /\ ~trace[i].ok) =>
            /\ i = Len(trace)
            /\ pc = 0
            /\ W = <<[by |-> "GetItemById", code |-> 404, body |-> "Not Found"]>>
            /\ ~req.body.read
            /\ req.Uploaded = NilValue
            /\ ~Ran("EditResult")
            /\ dbCalls = <<[op |-> "Find", handle |-> req.DB, err |-> FALSE]>>

\* C6 witness: a PATCH, with EditResult set, of an id that is not there.
C6_Witness ==
    /\ Serving("patch")
    /\ req.options.EditResult = "custom"
    /\ LastIs("GetItemById", FALSE)
    /\ ~InUse(req.id)

\* C7: a POST whose body is not JSON gets 422 from ParseUpload: the handler
\* has returned, no call to the store has been made, CheckUpload, PostDB and
\* EditResult have not run.
C7_MalformedPostIs422 ==
    (Serving("post") /\ req.body.read /\ ~req.body.valid) =>
        /\ pc = 0
        /\ LastIs("ParseUpload", FALSE)
        /\ W = <<[by |-> "ParseUpload", code |-> 422, body |-> ""]>>
        /\ dbCalls = <<>>
        /\ req.Uploaded = NilValue
        /\ ~Ran("CheckUpload") /\ ~Ran("PostDB") /\ ~Ran("EditResult")

\* C7 witness: a refused POST on a route with CheckUpload and EditResult set.
C7_Witness ==
    /\ Serving("post")
    /\ req.body.read /\ ~req.body.valid
    /\ req.options.CheckUpload = "custom"
    /\ req.options.EditResult = "custom"
    /\ LastIs("ParseUpload", FALSE)

C8_Engine ==
    Serving("post") =>
        \* a body that parses is refused by ParseUpload only for ValidateUpload
        /\ (LastIs("ParseUpload", FALSE) /\ req.body.valid) =>
               (NeedsValidation(req.Type) /\ Last(W).body = "errors")
        \* and once parsed, only CheckUpload stands before the create
        /\ LastIs("ParseUpload", TRUE) =>
               \/ At("CheckUpload") /\ Chain(handler)[pc + 1] = "PostDB"
               \/ At("PostDB") /\ req.options.CheckUpload = "nil"
        /\ LastIs("CheckUpload", TRUE) => At("PostDB")
        /\ LastIs("PostDB", FALSE) =>
               (pc = 0 /\ Last(W) = [by |-> "PostDB", code |-> 422, body |-> ""])
C8_Store ==
    (Serving("post") /\ At("PostDB") /\ InUse(req.Uploaded.item.id)
        /\ trace' # trace) =>
        /\ trace' = Append(trace, [stage |-> "PostDB", ok |-> FALSE])
        /\ pc' = 0
        /\ table' = table

\* C8: a POST whose body parses and gives the id of an existing record is not
\* refused by the engine: ParseUpload refuses a parsed body only on the
\* entity's own validation, and the request goes on to PostDB unless a
\* callback stops it.  There the store refuses it: PostDB fails, 422 is
\* written, the handler returns without EditResult or SerialiseResult, and
\* the table is as it was.
C8_CollisionLeftToStore == [](C8_Engine) /\ [][C8_Store]_vars

\* C8 witness: a POST giving the id of an existing record, refused by PostDB.
C8_Witness ==
    /\ Serving("post")
    /\ BodyGives("id")
    /\ req.body.fields.id # 0
    /\ InUse(req.body.fields.id)
    /\ LastIs("PostDB", FALSE)

\* C9: when the store reports an error on the save of a PATCH, PatchDB fails,
\* 422 is written and the handler returns without EditResult or
\* SerialiseResult.
C9_SaveErrorIs422 ==
    (\E i \in 1..Len(dbCalls) : dbCalls[i].op = "Save" /\ dbCalls[i].err) =>
        /\ pc = 0
        /\ LastIs("PatchDB", FALSE)
        /\ Last(W) = [by |-> "PatchDB", code |-> 422, body |-> ""]

\* The request carries a token that verifies against the configured secret, is
\* not expired, and whose subject LoginModel.GetById resolves.
C10_Accepted ==
    /\ req.token.present
    /\ req.token.alg = "HS256" /\ req.token.key = JwtKey
    /\ ("exp" \in DOMAIN req.token.claims => now <= req.token.claims.exp)
    /\ req.token.claims.id \in Users
C10_Step ==
    (At("Authenticate") /\ req.options.Authenticate = "default"
        /\ trace' # trace) =>
        IF C10_Accepted
        THEN /\ trace' = <<[stage |-> "Authenticate", ok |-> TRUE]>>
             /\ req'.LoginObject = Principal(req.token.claims.id)
             /\ W' = <<>>
        ELSE /\ trace' = <<[stage |-> "Authenticate", ok |-> FALSE]>>
             /\ req'.LoginObject = NilValue
             /\ W' = <<[by |-> "Authenticate", code |-> 401,
                        body |-> "Unauthorized"]>>
             /\ pc' = 0

\* C10: the default authenticator returns true exactly when the request
\* carries a token that verifies against the configured secret, is not
\* expired and names a subject GetById resolves, and then binds that
\* principal; otherwise it writes 401, returns false and binds nothing.
C10_DefaultAuthenticator == [][C10_Step]_vars

\* C10 witness: a token with an expiry has been accepted and its principal
\* bound.
C10_Witness ==
    /\ req.options.Authenticate = "default"
    /\ LastIs("Authenticate", TRUE)
    /\ "exp" \in DOMAIN req.token.claims
    /\ req.LoginObject = Principal(req.token.claims.id)

\* The default authenticator runs on the token the client got from a login.
C11_Presents ==
    /\ At("Authenticate")
    /\ req.options.Authenticate = "default"
    /\ req.token.present
    /\ trace' # trace
C11_Step ==
    \* issued at time t, the token expires at t + 1 hour
    /\ (handler = "idle" /\ handler' = "login" /\ W' # <<>>
            /\ W'[1].code = 200) =>
           held'.claims.exp = now + TTL
    \* the token of this server, of a user GetById resolves, is accepted
    \* exactly up to its expiry
    /\ (C11_Presents /\ req.token.key = g_options.JwtKey
           /\ ~GetById(req.token.claims.id).err) =>
           IF now <= req.token.claims.exp
           THEN trace' = <<[stage |-> "Authenticate", ok |-> TRUE]>> /\ W' = <<>>
           ELSE /\ trace' = <<[stage |-> "Authenticate", ok |-> FALSE]>>
                /\ W' = <<[by |-> "Authenticate", code |-> 401,
                           body |-> "Unauthorized"]>>

\* C11: a token issued at time t carries the expiry t + TTL (one hour); the
\* default authenticator accepts it at every time up to and including the
\* expiry and rejects it with 401 at every later time.
C11_TokenLivesOneHour == [][C11_Step]_vars

\* C11 witness: a token issued earlier has been accepted at the very instant
\* of its expiry.
C11_Witness ==
    /\ LastIs("Authenticate", TRUE)
    /\ req.token = held
    /\ now = held.claims.exp

C12_Step ==
    (C11_Presents /\ req.token = held) =>
        IF held.key = g_options.JwtKey
        THEN (now <= held.claims.exp /\ ~GetById(held.claims.id).err) =>
                /\ trace' = <<[stage |-> "Authenticate", ok |-> TRUE]>>
                /\ req'.LoginObject = GetById(held.claims.id).user
                /\ W' = <<>>
        ELSE /\ trace' = <<[stage |-> "Authenticate", ok |-> FALSE]>>
             /\ req'.LoginObject = NilValue
             /\ W' = <<[by |-> "Authenticate", code |-> 401,
                        body |-> "Unauthorized"]>>
             /\ pc' = 0
C12_Issued ==
    (handler = "login" /\ LastIs("loginHandler", TRUE)) =>
        /\ held = W[1].body.token
        /\ held.alg = "HS256"
        /\ held.key = OptionsOf(req.api).JwtKey
        /\ held.claims.id = CheckLoginDetails(req.body.fields).user_id

\* C12: the token the login endpoint of a server with secret K returns for
\* the subject X is signed with K and carries X; presented before its expiry
\* to a default-authenticated route of a server with the same secret, it is
\* accepted and the principal GetById(X) returns is bound (X being a subject
\* GetById resolves); presented to a server with another secret, it gets 401
\* and nothing is bound.
C12_RoundTrip == [](C12_Issued) /\ [][C12_Step]_vars

\* C12 witness: a token of a server with another secret has been refused.
C12_Witness ==
    /\ LastIs("Authenticate", FALSE)
    /\ req.token = held
    /\ held.present
    /\ held.key # g_options.JwtKey
    /\ now <= held.claims.exp
    /\ held.claims.id \in Users

\* A RouteOptions that asks for the built-in authentication and brings an
\* Authenticate of its own.
Conflicting(ro) == ro.UseDefaultAuth /\ ro.Authenticate = "custom"

\* C14: every Add...Route call with a RouteOptions that has UseDefaultAuth
\* and a custom Authenticate panics in Initialise and registers no handler.
C14_ConflictAlwaysFatal ==
    [][\A h \in Handlers, ro \in 1..Len(heap) :
         (Conflicting(heap[ro]) /\ AddRouteCall(h, ro))
             => (fatal' = "Initialise" /\ router' = router)]_vars

\* C15: Initialise of an initialised RouteOptions changes nothing and does
\* not panic, and a route added with an initialised RouteOptions leaves every
\* RouteOptions as it is and is registered.
C15_InitialiseIdempotent ==
    /\ [](\A a \in 1..Len(heap) :
            heap[a].initialised =>
                Initialise(heap[a]) = [ro |-> heap[a], panic |-> FALSE])
    /\ [][\A h \in Handlers, ro \in 1..Len(heap) :
            (heap[ro].initialised /\ AddRouteCall(h, ro))
                => /\ heap' = heap
                   /\ fatal' = ""
                   /\ router' = router \cup {Route(h, ro)}]_vars
\* Two routes share a RouteOptions that asked for the built-in authentication
\* and got it installed by the first Initialise.
C15_Witness ==
    \E a \in 1..Len(heap) :
        /\ heap[a].UseDefaultAuth
        /\ heap[a].Authenticate = "default"
        /\ Cardinality({r \in router : r.ro = a}) >= 2

\* C17: SetAuth on a Grapi without a JwtKey panics and leaves the options and
\* the router as they were; while the JwtKey is empty there is no login route
\* and no LoginModel set by SetAuth, and no token is ever issued with the
\* empty secret.
C17_SetAuthWithoutKey ==
    /\ [][\A model \in LoginModels :
            (g_options # NilValue /\ g_options.JwtKey = NoKey /\ SetAuth(model))
                => (fatal' = "SetAuth" /\ UNCHANGED <<g_options, router>>)]_vars
    /\ []((g_options # NilValue /\ g_options.JwtKey = NoKey)
            => /\ Route("login", 0) \notin router
               /\ g_options.LoginModel # "Admin"
               /\ held = NoToken)
    /\ [](held # NoToken => held.key # NoKey)
C17_Witness ==
    /\ g_options # NilValue
    /\ g_options.JwtKey = NoKey
    /\ g_options.LoginModel = "nil"
    /\ fatal = "SetAuth"
    /\ Route("login", 0) \notin router

\* The RouteOptions object AddDefaultRoutes is to use for handler h when it is
\* given k options and base objects exist already.
C18_Slot(k, h, base) ==
    IF k = 0
    THEN base + (CASE h = "item" -> 1 [] h = "index" -> 2 [] h = "post" -> 3
                   [] h = "patch" -> 4 [] h = "delete" -> 5)
    ELSE CASE h \in {"item", "index"} -> base + 1
           [] h \in {"post", "patch"} -> base + (IF k >= 2 THEN 2 ELSE 1)
           [] h = "delete" -> base + (IF k = 3 THEN 3 ELSE IF k = 2 THEN 2 ELSE 1)

\* C18: an AddDefaultRoutes call with up to three options that does not panic
\* registers the five handlers, GET item and index with the first option,
\* POST and PATCH with the second (the first if there is one only), DELETE
\* with the third (else the second, else the first); without options each
\* handler gets a default RouteOptions.
C18_OptionsMapping ==
    [][\A options \in OptionLists :
         (Len(options) <= 3 /\ AddDefaultRoutes(options) /\ fatal' = "")
             => LET k == Len(options)
                    base == Len(heap)
                IN  /\ router' \ router =
                           {Route(h, C18_Slot(k, h, base)) : h \in Handlers}
                    /\ \A h \in Handlers :
                          heap'[C18_Slot(k, h, base)] =
                              Initialise(IF k = 0 THEN EmptyRouteOptions
                                         ELSE options[C18_Slot(k, h, 0)]).ro]_vars
\* Two different options were given: the reads use the first, POST, PATCH and
\* DELETE the second.
C18_Witness ==
    /\ Len(heap) = 2
    /\ heap[1] # heap[2]
    /\ fatal = ""
    /\ router \ {Route("login", 0)} =
           {Route("item", 1), Route("index", 1), Route("post", 2),
            Route("patch", 2), Route("delete", 2)}

\* C19: an AddDefaultRoutes call with more than three options panics and
\* leaves the router and the RouteOptions as they were.
C19_TooManyOptions ==
    [][\A options \in OptionLists :
         (Len(options) > 3 /\ AddDefaultRoutes(options))
             => (fatal' = "AddDefaultRoutes" /\ UNCHANGED <<router, heap>>)]_vars
C19_Witness ==
    /\ g_options # NilValue
    /\ fatal = "AddDefaultRoutes"
    /\ router = {}
    /\ heap = <<>>

\* C13: while a request without a valid token is served by a route whose
\* RouteOptions has UseDefaultAuth set, the store is not called, and the
\* request ends with the one response 401.
C13_UnauthenticatedNeverServed ==
    (/\ handler \in Handlers
     /\ req.options.UseDefaultAuth
     /\ ~TokenValid(req.token, g_options.JwtKey, now))
        => /\ dbCalls = <<>>
           /\ pc = 0 => (Len(W) = 1 /\ W[1].code = 401)

\* C16: no request is served while a configuration error stands: the Grapi
\* has a Db, the RouteOptions of the route does not hold both UseDefaultAuth
\* and a custom Authenticate, and a route with UseDefaultAuth is served by a
\* Grapi that has a JwtKey; the default authenticator never panics.
C16_ErrorsDetectedBeforeServing ==
    /\ fatal # "defaultAuthenticator"
    /\ handler \in Handlers
        => /\ g_options.Db
           /\ ~Conflicting(req.options)
           /\ req.options.UseDefaultAuth => g_options.JwtKey # NoKey

\* An error map that holds errors.
HasErrors(m) == ~m.nil /\ m.keys # {}
Persisted == \E i \in 1..Len(dbCalls) : dbCalls[i].op \in {"Create", "Save"}

\* C20: ParseUpload (POST) and PatchResultWithUploaded (PATCH) call
\* ValidateUpload exactly when the body has parsed (and, on PATCH, the merge
\* has kept the id) and the entity implements NeedsValidation, before
\* CheckUpload has run and before any Create or Save; a map with errors is
\* answered with the one response 422 {"errors": ...} and ends the chain with
\* nothing persisted; a nil or an empty map, or an entity without
\* ValidateUpload, lets the chain go on to the next stage.
C20_Step ==
    \A s \in {"ParseUpload", "PatchResultWithUploaded"} :
        (At(s) /\ trace' # trace) =>
            LET reached ==
                    /\ req'.body.valid
                    /\ s = "PatchResultWithUploaded"
                           => getID(req.Result) = getID(req'.Result)
                called == validated' # validated
            IN  /\ called <=> (reached /\ NeedsValidation(req.Type))
                /\ ~Ran("CheckUpload") /\ ~Persisted
                /\ called =>
                      /\ Len(validated') = Len(validated) + 1
                      /\ IF HasErrors(Last(validated'))
                         THEN /\ W' = Append(W, [by |-> s, code |-> 422,
                                                   body |-> "errors"])
                              /\ Last(trace') = [stage |-> s, ok |-> FALSE]
                              /\ pc' = 0
                              /\ UNCHANGED <<table, dbCalls>>
                         ELSE /\ W' = W
                              /\ Last(trace') = [stage |-> s, ok |-> TRUE]
                              /\ pc' = pc + 1
                /\ (reached /\ ~NeedsValidation(req.Type)) =>
                      /\ W' = W
                      /\ Last(trace') = [stage |-> s, ok |-> TRUE]
                      /\ pc' = pc + 1
C20_Halted ==
    /\ Len(validated) <= 1
    /\ (validated # <<>> /\ HasErrors(Last(validated)))
           => pc = 0 /\ ~Ran("CheckUpload") /\ ~Persisted
    /\ (handler \in Handlers /\ NeedsValidation(req.Type)
            /\ (Ran("CheckUpload") \/ Persisted))
           => validated # <<>>
C20_ValidateUpload == [](C20_Halted) /\ [][C20_Step]_vars
\* A PATCH whose merged entity ValidateUpload refused.
C20_Witness ==
    /\ handler = "patch"
    /\ validated # <<>> /\ HasErrors(Last(validated))
    /\ Len(W) = 1 /\ W[1].code = 422 /\ W[1].body = "errors"
    /\ pc = 0

\* The stage s has run in this request and returned ok.
Passed(s) == \E i \in 1..Len(trace) : trace[i] = [stage |-> s, ok |-> TRUE]

\* C21: in a PATCH, PatchResultWithUploaded that returns true leaves as the
\* upload the fetched (stored) entity with the fields of the body laid over
\* it and the id unchanged; the upload stays that entity to the end of the
\* request (it is what CheckUpload gets), a Save that succeeds puts exactly
\* it in the place of the stored record, and, unless EditResult has run, it
\* is the result whose JSON is returned with 200.
C21_Step ==
    handler = "patch" =>
        /\ (At("PatchResultWithUploaded") /\ Passed("PatchResultWithUploaded")')
             => LET old == req.Result.item
                    body == req'.body.fields
                    merged == req'.Uploaded.item
                IN  /\ old \in table
                    /\ merged.id = old.id
                    /\ merged.name = IF "name" \in DOMAIN body
                                      THEN body.name ELSE old.name
                    /\ "id" \in DOMAIN body => body.id = old.id
                    /\ req'.Result = req'.Uploaded
        /\ (Passed("PatchResultWithUploaded") /\ handler' = "patch")
             => req'.Uploaded = req.Uploaded
        /\ (At("PatchDB") /\ pc' # pc)
             => /\ Len(dbCalls') = Len(dbCalls) + 1
                /\ Last(dbCalls').op = "Save"
                /\ ~Last(dbCalls').err
                      => table' = {r \in table : r.id # req.id}
                                      \cup {req.Uploaded.item}
        /\ (At("SerialiseResult") /\ pc' # pc)
             => /\ ~Ran("EditResult") => req.Result = req.Uploaded
                /\ req.Result = req.Uploaded
                      => W' = Append(W, [by |-> "SerialiseResult", code |-> 200,
                                         body |-> EncodeItem(req.Uploaded.item)])
C22_Step ==
    /\ (At("SerialiseResult") /\ pc' # pc)
         => /\ req' = req
            /\ IF req.Result = NilValue
               THEN /\ W' = Append(W, [by |-> "SerialiseResult", code |-> 404,
                                        body |-> "Not Found"])
                    /\ Last(trace') = [stage |-> "SerialiseResult", ok |-> FALSE]
               ELSE IF req.Result.kind = "func"
               THEN /\ W' = Append(W, [by |-> "SerialiseResult", code |-> 422,
                                        body |-> "Failed to encode JSON"])
                    /\ Last(trace') = [stage |-> "SerialiseResult", ok |-> FALSE]
               ELSE /\ W' = Append(W, [by |-> "SerialiseResult", code |-> 200,
                                        body |-> Encode(req.Result).json])
                    /\ Last(trace') = [stage |-> "SerialiseResult", ok |-> TRUE]
    /\ (At("EditResult") /\ Passed("EditResult")')
         => pc' > 0 /\ Chain(handler)[pc'] = "SerialiseResult"
C22_SerialiseOutcome == [][C22_Step]_vars
\* EditResult has replaced the entity GetItemById fetched, and the answer is
\* the JSON of the replacement.
C22_Witness ==
    /\ handler = "item"
    /\ Passed("GetItemById")
    /\ Passed("EditResult")
    /\ req.Result = CustomValue
    /\ W = <<[by |-> "SerialiseResult", code |-> 200,
              body |-> "{\"custom\":true}"]>>

\* C23: once DeleteFromDB has run in a DELETE the record of the id is gone
\* from the table (so GetItemById of a later GET, PATCH or DELETE of the id
\* finds nothing), and a DELETE that ends with 200 without an EditResult
\* answers with the JSON of the entity that was fetched.
C23_DeleteRemoves ==
    handler = "delete" =>
        /\ Passed("DeleteFromDB") => ~InUse(req.id)
        /\ (pc = 0 /\ LastIs("SerialiseResult", TRUE) /\ ~Ran("EditResult"))
             => W = <<[by |-> "SerialiseResult", code |-> 200,
                       body |-> EncodeItem(req.Result.item)]>>

\* A POST has ended, its Create succeeded and every callback that ran
\* returned true.
C24_Posted ==
    /\ handler = "post"
    /\ pc = 0
    /\ Passed("PostDB")
    /\ \A i \in 1..Len(trace) : trace[i].stage \in OptionalStages => trace[i].ok
\* The entity Create made is in the table under its key (a GET of the key on
\* the unscoped handle finds exactly it), has the fields of the body, and
\* its JSON is the one response, 200.
C24_Created ==
    LET created == req.Uploaded.item
        body == req.body.fields
    IN  /\ created.id \in Ids
        /\ ("id" \in DOMAIN body /\ body.id # 0) => created.id = body.id
        /\ created.name = IF "name" \in DOMAIN body THEN body.name ELSE ""
        /\ FindById(api_db, created.id) = {created}
        /\ W = <<[by |-> "SerialiseResult", code |-> 200,
                  body |-> EncodeItem(created)]>>

InScope(db) == {r \in table : \A n \in db : r.name = n}

\* C25: GetItems puts in the result exactly the stored records that satisfy
\* the clauses the Query callback of this request added to the handle, all
\* records when no Query ran; an index request that ends with 200 without an
\* EditResult answers with the JSON array of exactly these records.
C25_Step ==
    (At("GetItems") /\ pc' # pc)
        => /\ req'.Result = Slice(InScope(req.DB))
           /\ ~Ran("Query") => req'.Result = Slice(table)
           /\ Last(trace') = [stage |-> "GetItems", ok |-> TRUE]
C25_Answered ==
    (handler = "index" /\ LastIs("SerialiseResult", TRUE) /\ ~Ran("EditResult"))
        => /\ W = <<[by |-> "SerialiseResult", code |-> 200,
                     body |-> "[" \o EncodeRows(InScope(req.DB)) \o "]"]>>
           /\ ~Ran("Query") => InScope(req.DB) = table
C25_IndexScope == [](C25_Answered) /\ [][C25_Step]_vars
\* Two records are stored and the index of a narrowed handle has answered
\* with the one that is in its scope.
C25_Witness ==
    /\ handler = "index"
    /\ Passed("Query")
    /\ LastIs("SerialiseResult", TRUE)
    /\ ~Ran("EditResult")
    /\ Cardinality(table) = 2
    /\ Cardinality(InScope(req.DB)) = 1
    /\ req.Result = Slice(InScope(req.DB))

\* The record the request is addressed to is stored but not in the scope of
\* the request's handle.
OutOfScope ==
    \E r \in table : r.id = req.id /\ r \notin InScope(req.DB)

\* C26: in a GET item, PATCH or DELETE, GetItemById answers 404 and ends the
\* chain when the record of the id is stored outside the scope of the
\* request's handle, and no step of such a request changes or removes a
\* stored record that is outside that scope.
C26_Step ==
    handler \in {"item", "patch", "delete"} =>
        /\ (At("GetItemById") /\ pc' # pc /\ OutOfScope)
             => /\ W' = Append(W, [by |-> "GetItemById", code |-> 404,
                                    body |-> "Not Found"])
                /\ Last(trace') = [stage |-> "GetItemById", ok |-> FALSE]
                /\ pc' = 0
                /\ table' = table
        /\ \A r \in table : r \notin InScope(req.DB) => r \in table'
        /\ (pc = 0 /\ LastIs("GetItemById", FALSE)) => table' = table
C26_ScopedLookupProtects == [][C26_Step]_vars
\* A DELETE addressed to a stored record outside the narrowed scope has been
\* answered 404 and the record is still stored.
C26_Witness ==
    /\ handler = "delete"
    /\ Passed("Query")
    /\ OutOfScope
    /\ pc = 0
    /\ W = <<[by |-> "GetItemById", code |-> 404, body |-> "Not Found"]>>
    /\ dbCalls = <<[op |-> "Find", handle |-> req.DB, err |-> FALSE]>>

\* --------------------------------------------------------- capability views
\* The interfaces a callback is handed: the names of the methods each one
\* declares.
RequestInfo ==
    {"Param", "Method", "Options", "GetRequest", "GetData", "SetData"}
RequestResponseWriter == {"GetResponseWriter"}
RequestLoginInfo == {"GetLoginObject"}
ReqToAuthenticate ==
    RequestInfo \cup RequestResponseWriter \cup {"SetLoginObject"}
ReqToAuthorize == RequestInfo \cup RequestLoginInfo \cup RequestResponseWriter
ReqToLimit == RequestInfo \cup RequestLoginInfo \cup {"GetDB", "SetDB"}
ReqULToCheck ==
    RequestInfo \cup RequestLoginInfo \cup RequestResponseWriter \cup {"GetUpload"}
ReqFinalResult ==
    RequestInfo \cup RequestLoginInfo \cup {"GetUpload", "GetResult", "SetResult"}

\* The parameter type of each callback.
View(s) ==
    CASE s = "Authenticate" -> ReqToAuthenticate
      [] s = "Authorize" -> ReqToAuthorize
      [] s = "Query" -> ReqToLimit
      [] s = "CheckUpload" -> ReqULToCheck
      [] s = "EditResult" -> ReqFinalResult

\* The data store handles in what a method of the request returns: GetDB
\* returns r.DB, Options returns r.api.options, the *Options New was given,
\* whose Db field is the handle New copied to g.db.
Obtains(op) ==
    CASE op = "GetDB" -> {req.DB}
      [] op = "Options" ->
            IF g_options # NilValue /\ g_options.Db THEN {api_db} ELSE {}
      [] OTHER -> {}

\* The callback of the route is about to be called.
Called(s) == At(s) /\ req.options[s] = "custom"

\* C27: no method of the view handed to Authenticate, Authorize, CheckUpload
\* or EditResult returns a data store handle, directly or inside the value
\* it returns; only the view of Query does.
C27_OnlyQueryObtainsHandle ==
    \A s \in OptionalStages \ {"Query"} :
        Called(s) => \A op \in View(s) : Obtains(op) = {}

\* C28: every optional stage, when it is called, holds the response writer
\* in its view, so that it can write its own response before it returns false.
C28_EveryStageCanWrite ==
    \A s \in OptionalStages :
        Called(s) => "GetResponseWriter" \in View(s)

\* ------------------------------------------------------ concurrent requests
\* The requests in progress: the one of the running goroutine and the one of
\* the other.
InProgress == {Running, parked}
\* The step is a switch of goroutines.
Switched == parked' = Running /\ Running' = parked
QueryRan(c) == \E i \in 1..Len(c.trace) : c.trace[i].stage = "Query"

\* C29: g.db stays the unscoped handle; a request holds the unscoped handle
\* until its own Query callback has run, and each Find it makes is made on
\* the handle it holds; a step of one request leaves the handle of the other
\* request as it is, and the handle of a request changes only in its own
\* Query callback (or when its handler returns).
C29_Handles ==
    /\ g_db = api_db
    /\ \A c \in InProgress :
        /\ ~QueryRan(c) => c.req.DB = api_db
        /\ \A i \in 1..Len(c.dbCalls) :
              c.dbCalls[i].op = "Find" => c.dbCalls[i].handle = c.req.DB
C29_Step ==
    ~Switched =>
        /\ parked'.req.DB = parked.req.DB
        /\ g_db' = g_db
        /\ req'.DB # req.DB => (At("Query") \/ (pc = 0 /\ handler' = "idle"))
C29_NarrowingIsPerRequest == [](C29_Handles) /\ [][C29_Step]_vars
\* Two requests in progress, the parked one narrowed to a scope that hides
\* record 1, the running one not narrowed by its own Query callback: it has
\* found record 1.
C29_Witness ==
    /\ parked.pc > 0
    /\ QueryRan(parked)
    /\ parked.req.DB = Where(api_db, "")
    /\ QueryRan(Running)
    /\ req.DB = api_db
    /\ Passed("GetItemById")
    /\ req.Result = Item([id |-> 1, name |-> "w"])

\* What the stages store in the request for one another.
Stored(c) ==
    [LoginObject |-> c.req.LoginObject, Data |-> c.req.Data,
     Uploaded |-> c.req.Uploaded, Result |-> c.req.Result]
Unset ==
    [LoginObject |-> NilValue, Data |-> NilValue, Uploaded |-> NilValue,
     Result |-> NilValue]

\* C30: a request no stage of which has run holds no principal, no data, no
\* upload and no result, and the unscoped handle; a step of one request
\* leaves the other request as it is, and what a request holds changes only
\* in a stage of its own: the principal and the data in Authenticate, the
\* upload in PatchResultWithUploaded, the result in GetItemById,
\* PatchResultWithUploaded and PatchDB (or when its handler returns).
C30_Fresh ==
    \A c \in InProgress :
        c.trace = <<>> => (Stored(c) = Unset /\ c.req.DB = api_db)
C30_Step ==
    ~Switched =>
        /\ parked' = parked
        /\ Stored(Running)' # Stored(Running) =>
              \/ pc = 0 /\ handler' = "idle"
              \/ /\ pc > 0
                 /\ Len(trace') = Len(trace) + 1
                 /\ trace'[Len(trace')].stage = Stage
                 /\ req'.LoginObject # req.LoginObject => Stage = "Authenticate"
                 /\ req'.Data # req.Data => Stage = "Authenticate"
                 /\ req'.Uploaded # req.Uploaded =>
                       Stage = "PatchResultWithUploaded"
                 /\ req'.Result # req.Result =>
                       Stage \in {"GetItemById", "PatchResultWithUploaded",
                                  "PatchDB"}
C30_ContextIsPerRequest == [](C30_Fresh) /\ [][C30_Step]_vars
\* Two requests in progress: the parked one has stored a principal, data, an
\* upload and a result; the running one, whose Authenticate has run and set
\* no principal, holds none of them.
C30_Witness ==
    /\ parked.pc > 0
    /\ parked.req.LoginObject = Principal(1)
    /\ parked.req.Data = Principal(1)
    /\ parked.req.Uploaded # NilValue
    /\ parked.req.Result # NilValue
    /\ pc > 0
    /\ Passed("Authenticate")
    /\ Stored(Running) = Unset

\* ------------------------------------------------ finalised before serving
\* Initialise has been called on the RouteOptions and has left no empty
\* Authenticate slot where the built-in authentication was asked for.
Finalised(ro) == ro.initialised /\ (ro.UseDefaultAuth => ro.Authenticate # "nil")

\* C31: the RouteOptions of every handler registered with the router is
\* finalised, and so is the RouteOptions of every request being served,
\* whenever the routes were registered.
C31_FinalisedBeforeServed ==
    /\ \A r \in router : r.ro # 0 => Finalised(heap[r.ro])
    /\ handler \in Handlers => Finalised(req.options)
\* A request is being served by a route that asked for the built-in
\* authentication and has it installed, and both routes are registered.
C31_Witness ==
    /\ handler \in Handlers
    /\ pc > 0
    /\ req.options.UseDefaultAuth
    /\ req.options.Authenticate = "default"
    /\ Cardinality({r \in router : r.ro # 0}) = 2

\* ------------------------------------------------------ principal and data
\* What GetLoginObject and GetData return to a callback.
GetLoginObject == req.LoginObject
GetData == req.Data

\* C32: what GetLoginObject and GetData return changes in the Authenticate
\* callback only, which stores them (or when the handler returns): every
\* later stage, callback or built-in, leaves both as Authenticate set them.
C32_Step ==
    (GetLoginObject' # GetLoginObject \/ GetData' # GetData)
        => (At("Authenticate") \/ handler' = "idle")
C32_PrincipalAndDataKept == [][C32_Step]_vars
\* The chain of a PATCH has run to its end with all callbacks, and the
\* principal and the data Authenticate stored are still there.
C32_Witness ==
    /\ handler = "patch"
    /\ Passed("Authenticate")
    /\ Passed("Authorize")
    /\ Passed("PatchDB")
    /\ Ran("EditResult")
    /\ GetLoginObject = Principal(1)
    /\ GetData = Principal(1)

\* ------------------------------------------------------ the login endpoint
\* The posted credentials are a JSON object that CheckLoginDetails accepts.
Accepted(b) ==
    b.read /\ b.valid /\ b # NotAnObject /\ ~CheckLoginDetails(b.fields).err

\* C33: the login handler answers 200 {"token": t} exactly when
\* CheckLoginDetails accepts the posted credentials, t carrying the id
\* CheckLoginDetails returned; a body that is not JSON is answered 422 and
\* rejected credentials 403, each as the one response; and the client gets a
\* new token in a login step with accepted credentials only.
C33_Answer ==
    handler = "login" =>
        IF Accepted(req.body)
        THEN /\ Len(W) = 1
             /\ W[1].code = 200
             /\ W[1].body = [token |-> held]
             /\ held.claims.id = CheckLoginDetails(req.body.fields).user_id
        ELSE /\ \A i \in 1..Len(W) : W[i].code # 200
             /\ ~req.body.valid => (Len(W) = 1 /\ W[1].code = 422)
             /\ (req.body.valid /\ req.body # NotAnObject) =>
                    (Len(W) = 1 /\ W[1].code = 403)
C33_Step == held' # held => (handler' = "login" /\ Accepted(req'.body))
C33_TokenOnlyWhenAccepted == [](C33_Answer) /\ [][C33_Step]_vars
\* The client holds the token of user 1 from an earlier login and has now
\* posted credentials that were rejected: it got 403 and its token is the
\* old one.
C33_Witness ==
    /\ handler = "login"
    /\ req.body.valid
    /\ req.body.fields = [login |-> 0]
    /\ W[1].code = 403
    /\ held # NoToken
    /\ held.claims.id = 1

\* --------------------------------------------- the write is not rolled back
\* The stage of each handler that writes to the store.
WriteStage(h) ==
    CASE h = "post" -> "PostDB" [] h = "patch" -> "PatchDB"
      [] h = "delete" -> "DeleteFromDB"
\* The write call of the request went through in the store.
Written ==
    \E i \in 1..Len(dbCalls) :
        dbCalls[i].op \in {"Create", "Save", "Delete"} /\ ~dbCalls[i].err
\* The table holds what the request wrote.
InTable ==
    IF handler = "delete" THEN ~InUse(req.id) ELSE req.Uploaded.item \in table

\* C34: in POST, PATCH and DELETE the table changes in the write stage only,
\* which has run whenever EditResult runs; what was written stays in the
\* table whatever EditResult and SerialiseResult do, and an EditResult that
\* returns false ends the request with nothing written to the client, one
\* that leaves no result with 404, one that leaves a result that cannot be
\* encoded with 422.
C34_Outcome ==
    (handler \in {"post", "patch", "delete"} /\ Ran("EditResult")) =>
        /\ Passed(WriteStage(handler))
        /\ Written => InTable
        /\ LastIs("EditResult", FALSE) => (pc = 0 /\ W = <<>>)
        /\ (Ran("SerialiseResult") /\ req.Result = NilValue) =>
               (Len(W) = 1 /\ W[1].code = 404)
        /\ (Ran("SerialiseResult") /\ req.Result # NilValue
               /\ Encode(req.Result).err) => (Len(W) = 1 /\ W[1].code = 422)
C34_Step ==
    (handler \in {"post", "patch", "delete"} /\ table' # table) =>
        At(WriteStage(handler))
C34_WriteBeforeEditResult == [](C34_Outcome) /\ [][C34_Step]_vars
\* A DELETE whose EditResult returned false: the client has no response and
\* the record is gone.
C34_Witness ==
    /\ handler = "delete"
    /\ LastIs("EditResult", FALSE)
    /\ W = <<>>
    /\ Written
    /\ ~InUse(req.id)

\* ------------------------------------------------------- the empty index
\* C35: GetItems returns true, writes nothing and leaves a slice as the
\* result, whatever the handle finds; a GET index whose result is still an
\* empty slice when it is serialised is answered 200 with [], and a GET
\* index is answered 404 only after EditResult has run and left no result.
C35_Step ==
    (At("GetItems") /\ pc' # pc) =>
        /\ Last(trace') = [stage |-> "GetItems", ok |-> TRUE]
        /\ W' = W
        /\ req'.Result # NilValue
        /\ req'.Result.kind = "slice"
C35_Answered ==
    (handler = "index" /\ Ran("SerialiseResult")) =>
        /\ req.Result = Slice({}) =>
              W = <<[by |-> "SerialiseResult", code |-> 200, body |-> "[]"]>>
        /\ W[1].code = 404 => (Ran("EditResult") /\ req.Result = NilValue)
        /\ (~Ran("EditResult") /\ InScope(req.DB) = {}) => req.Result = Slice({})
C35_EmptyIndexIs200 == [](C35_Answered) /\ [][C35_Step]_vars
\* The table is empty and a GET index without callbacks has been answered.
C35_Witness ==
    /\ handler = "index"
    /\ table = {}
    /\ ~Ran("Query")
    /\ ~Ran("EditResult")
    /\ LastIs("SerialiseResult", TRUE)
    /\ W[1].code = 200
    /\ W[1].body = "[]"

\* ------------------------------------------- a conflict is reported once
\* C36: the first Add...Route call with a RouteOptions that has both
\* UseDefaultAuth and a custom Authenticate panics, registers nothing and
\* leaves the object marked as initialised, its Authenticate still the custom
\* one; every later call with that object registers its handler without a
\* panic and leaves the object as it is; a request served by such a route is
\* authenticated by the custom callback, never by the built-in one.
C36_Step ==
    /\ \A h \in Handlers, a \in 1..Len(heap) :
          (Conflicting(heap[a]) /\ AddRouteCall(h, a)) =>
              IF heap[a].initialised
              THEN /\ fatal' = ""
                   /\ heap' = heap
                   /\ router' = router \cup {Route(h, a)}
              ELSE /\ fatal' = "Initialise"
                   /\ heap' = [heap EXCEPT ![a].initialised = TRUE]
                   /\ router' = router
    /\ (handler \in Handlers /\ Conflicting(req.options)
           /\ At("Authenticate") /\ trace' # trace) => Authenticate(Kept)
DefaultAuthStep ==
    At("Authenticate") /\ req.options.Authenticate = "default" /\ trace' # trace

\* C37: a RouteOptions with the built-in authenticator installed holds
\* nothing of the Options, whenever it was registered; what the default
\* authenticator does with a request is given by the JwtKey and the
\* LoginModel that g.options holds when the request is served: the token is
\* checked against that JwtKey and the principal is the one that LoginModel
\* resolves the token's id to.
C37_Step ==
    DefaultAuthStep =>
        IF ~TokenValid(req.token, g_options.JwtKey, now)
        THEN /\ W' = <<[by |-> "Authenticate", code |-> 401,
                        body |-> "Unauthorized"]>>
             /\ req'.LoginObject = NilValue
        ELSE IF g_options.LoginModel = "nil"
        THEN W'[1].code = 500 /\ req'.LoginObject = NilValue
        ELSE LET guser == GetByIdOf(g_options.LoginModel, req.token.claims.id)
             IN  IF guser.err
                 THEN W'[1].code = 401 /\ req'.LoginObject = NilValue
                 ELSE /\ W' = <<>>
                      /\ req'.LoginObject = guser.user
                      /\ Last(trace') = [stage |-> "Authenticate", ok |-> TRUE]
C37_OptionsReadAtRequest ==
    /\ [](\A r \in router :
            (r.ro # 0 /\ heap[r.ro].Authenticate = "default") =>
                heap[r.ro] =
                    Initialise([EmptyRouteOptions EXCEPT !.UseDefaultAuth = TRUE]).ro)
    /\ [][C37_Step]_vars
\* SetAuth has set the Admin model and a request with a token of this server
\* has got the principal that model resolves.
C37_Witness ==
    /\ handler \in Handlers
    /\ req.options.Authenticate = "default"
    /\ Passed("Authenticate")
    /\ g_options.LoginModel = "Admin"
    /\ req.LoginObject = GetByIdOf("Admin", 1).user

\* --------------------------------------------- the secret and the method
\* C38: for a token whose signing method is not HMAC the key function gives
\* an error and not the secret, and the default authenticator answers the
\* one response 401, returns false and binds no principal, whatever the
\* claims of the token and the key it was signed with.
C38_Step ==
    (DefaultAuthStep /\ req.token.present /\ req.token.alg # "HS256") =>
        /\ keyfunc(req.token, g_options.JwtKey) = [err |-> TRUE]
        /\ W' = <<[by |-> "Authenticate", code |-> 401, body |-> "Unauthorized"]>>
        /\ trace' = <<[stage |-> "Authenticate", ok |-> FALSE]>>
        /\ req'.LoginObject = NilValue
        /\ pc' = 0
C38_NoSecretForOtherMethods == [][C38_Step]_vars
\* A token that declares RS256, made with the server's secret for a user
\* GetById knows and not expired, has been refused.
C38_Witness ==
    /\ req.options.Authenticate = "default"
    /\ LastIs("Authenticate", FALSE)
    /\ req.token.present
    /\ req.token.alg = "RS256"
    /\ req.token.key = g_options.JwtKey
    /\ req.token.claims = [id |-> 1]
    /\ W[1].code = 401

====
